---- MODULE Spec2Model ----
(***************************************************************************)
(* The view.tree language server: the workspace index kept by             *)
(* ProjectScanner, the server's message handlers and the goroutine that   *)
(* initialises the providers and runs the first project scan.             *)
(*                                                                         *)
(* Text is a sequence of one-character strings, so that strings.Split,    *)
(* strings.TrimSpace, strings.Fields and the regular expressions of the   *)
(* scanner are computed character by character, as the code does.         *)
(***************************************************************************)
EXTENDS Integers, Sequences, FiniteSets, TLC

VARIABLES
    projectData,      \* ps.projectData: the ProjectData the scanner points to
    mutex,            \* projectData.mutex of that object: [writer, readers]
    projectScanner,   \* s.projectScanner # nil
    providers,        \* the provider fields of Server that are not nil
    documents,        \* s.documents: the URIs of the open documents
    main,             \* the message loop (Server.Run): position and locals
    scan,             \* the goroutine of handleInitialized: position and locals
    crashed,          \* the process has died (panic in Run, or runtime fatal error)
    claimOrder,       \* history: per component, the files that hold it: first the
                      \* .view.tree files, then the .ts files, each oldest claim first
    handled,          \* the number of client messages Run has read after "initialized"
    call              \* a function of the server applied on its own: the
                      \* arguments, the function's name and what it returned

vars == <<projectData, mutex, projectScanner, providers, documents, main, scan,
          crashed, claimOrder, handled, call>>

----------------------------------------------------------------------------
(* Characters and strings *)

Lower == {"a","b","c","d","e","f","g","h","i","j","k","l","m",
          "n","o","p","q","r","s","t","u","v","w","x","y","z"}
Upper == {"A","B","C","D","E","F","G","H","I","J","K","L","M",
          "N","O","P","Q","R","S","T","U","V","W","X","Y","Z"}
Digit == {"0","1","2","3","4","5","6","7","8","9"}

\* unicode.IsSpace on the ASCII range, which is also the class \s of regexp
SpaceChars == {" ", "\t", "\n", "\r", "\f"}
\* [a-zA-Z_]
IsIdentStart(c) == c \in Lower \cup Upper \cup {"_"}
\* [a-zA-Z0-9_?*]
IdentChars == Lower \cup Upper \cup Digit \cup {"_", "?", "*"}
\* \w
WordChars == Lower \cup Upper \cup Digit \cup {"_"}

\* strings.HasPrefix
HasPrefix(s, p) == Len(p) <= Len(s) /\ SubSeq(s, 1, Len(p)) = p
\* strings.HasSuffix
HasSuffix(s, p) == Len(p) <= Len(s) /\ SubSeq(s, Len(s) - Len(p) + 1, Len(s)) = p
\* strings.Contains
Contains(s, p) == \E i \in 1..(Len(s) - Len(p) + 1) : SubSeq(s, i, i + Len(p) - 1) = p

\* the length of the longest run of characters of class cls in s from position i
RECURSIVE RunLen(_, _, _)
RunLen(s, i, cls) ==
    IF i <= Len(s) /\ s[i] \in cls THEN 1 + RunLen(s, i + 1, cls) ELSE 0

\* the length of the longest run of characters outside cls in s from position i
RECURSIVE RunLenNot(_, _, _)
RunLenNot(s, i, cls) ==
    IF i <= Len(s) /\ s[i] \notin cls THEN 1 + RunLenNot(s, i + 1, cls) ELSE 0

\* strings.TrimSpace
TrimSpace(s) ==
    LET lead == RunLen(s, 1, SpaceChars)
        rest == SubSeq(s, lead + 1, Len(s))
        last == IF \E i \in 1..Len(rest) : rest[i] \notin SpaceChars
                THEN CHOOSE i \in 1..Len(rest) :
                        /\ rest[i] \notin SpaceChars
                        /\ \A j \in (i + 1)..Len(rest) : rest[j] \in SpaceChars
                ELSE 0
    IN SubSeq(rest, 1, last)

\* strings.Fields(s)[0], for s that holds a field
FirstField(s) ==
    LET lead == RunLen(s, 1, SpaceChars)
    IN SubSeq(s, lead + 1, lead + RunLenNot(s, lead + 1, SpaceChars))

\* strings.Split(s, "\n")
RECURSIVE SplitLines(_)
SplitLines(s) ==
    IF \A i \in 1..Len(s) : s[i] # "\n"
    THEN <<s>>
    ELSE LET k == CHOOSE i \in 1..Len(s) :
                    s[i] = "\n" /\ \A j \in 1..(i - 1) : s[j] # "\n"
         IN <<SubSeq(s, 1, k - 1)>> \o SplitLines(SubSeq(s, k + 1, Len(s)))

\* regexp `^(\s+)([a-zA-Z_][a-zA-Z0-9_?*]*)\s*`, FindStringSubmatch(line):
\* group 2 when the line matches with a non-empty group 1, else the empty string
IndentMatch(line) ==
    LET ws == RunLen(line, 1, SpaceChars)
    IN IF ws > 0 /\ ws < Len(line) /\ IsIdentStart(line[ws + 1])
       THEN SubSeq(line, ws + 1, ws + RunLen(line, ws + 1, IdentChars))
       ELSE <<>>

\* regexp `<=\s+([a-zA-Z_][a-zA-Z0-9_?*]*)`, FindStringSubmatch(s): group 1 of
\* the leftmost match, else the empty string
BindingMatchAt(s, i) ==
    /\ i + 1 <= Len(s) /\ s[i] = "<" /\ s[i + 1] = "="
    /\ RunLen(s, i + 2, SpaceChars) > 0
    /\ i + 2 + RunLen(s, i + 2, SpaceChars) <= Len(s)
    /\ IsIdentStart(s[i + 2 + RunLen(s, i + 2, SpaceChars)])

BindingMatch(s) ==
    IF \E i \in 1..Len(s) : BindingMatchAt(s, i)
    THEN LET i == CHOOSE k \in 1..Len(s) :
                    BindingMatchAt(s, k) /\ \A j \in 1..(k - 1) : ~BindingMatchAt(s, j)
             st == i + 2 + RunLen(s, i + 2, SpaceChars)
         IN SubSeq(s, st, st + RunLen(s, st, IdentChars) - 1)
    ELSE <<>>

\* regexp `\$\w+`, FindAllString(s, -1): the matches from position i on
RECURSIVE FindAllComponents(_, _)
FindAllComponents(s, i) ==
    IF i > Len(s) THEN <<>>
    ELSE IF s[i] = "$" /\ RunLen(s, i + 1, WordChars) > 0
         THEN <<SubSeq(s, i, i + RunLen(s, i + 1, WordChars))>>
              \o FindAllComponents(s, i + 1 + RunLen(s, i + 1, WordChars))
         ELSE FindAllComponents(s, i + 1)

----------------------------------------------------------------------------
(* Maps of Go, as functions with a changing domain *)

EmptyMap == [k \in {} |-> {}]
MapPut(m, k, v) == [x \in (DOMAIN m) \cup {k} |-> IF x = k THEN v ELSE m[x]]
\* m[k] of a map of sets, where a missing key reads as the nil (empty) map
MapGet(m, k) == IF k \in DOMAIN m THEN m[k] ELSE {}

----------------------------------------------------------------------------
(* ProjectData and the fold-in of one file *)

NewProjectData ==
    [Components          |-> {},
     ComponentProperties |-> EmptyMap,
     ComponentFiles      |-> EmptyMap,
     FileComponents      |-> EmptyMap]

\* a clearing that also drops the properties of the components of the file
ClearFileComponentsAndProperties(pd, filePath) ==
    LET components == MapGet(pd.FileComponents, filePath)
        stale == {comp \in components :
                     comp \in DOMAIN pd.ComponentFiles
                     /\ pd.ComponentFiles[comp] = filePath}
    IN [pd EXCEPT
          !.ComponentFiles = [c \in (DOMAIN pd.ComponentFiles) \ stale |->
                                  pd.ComponentFiles[c]],
          !.ComponentProperties = [c \in (DOMAIN pd.ComponentProperties) \ components |->
                                       pd.ComponentProperties[c]],
          !.FileComponents = MapPut(pd.FileComponents, filePath, {})]
\* "Clear previous components for this file", then a fresh FileComponents entry
ClearFileComponents(pd, filePath) ==
    LET components == MapGet(pd.FileComponents, filePath)
        stale == {comp \in components :
                     comp \in DOMAIN pd.ComponentFiles
                     /\ pd.ComponentFiles[comp] = filePath}
    IN [pd EXCEPT
          !.ComponentFiles = [c \in (DOMAIN pd.ComponentFiles) \ stale |->
                                  pd.ComponentFiles[c]],
          !.FileComponents = MapPut(pd.FileComponents, filePath, {})]

\* a line of a .view.tree file declares a component: no indentation, first word $...
IsComponentLine(line) ==
    /\ ~HasPrefix(line, <<"\t">>)
    /\ ~HasPrefix(line, <<" ">>)
    /\ HasPrefix(TrimSpace(line), <<"$">>)
    /\ HasPrefix(FirstField(TrimSpace(line)), <<"$">>)

\* the property names one line adds to the current component
LineProperties(line) ==
    LET trimmed == TrimSpace(line)
        indented == IndentMatch(line)
        bound == BindingMatch(trimmed)
    IN (IF /\ indented # <<>>
           /\ ~Contains(trimmed, <<"<", "=">>)
           /\ ~Contains(trimmed, <<"<", "=", ">">>)
           /\ ~HasPrefix(indented, <<"$">>)
           /\ indented \notin {<<"n","u","l","l">>, <<"t","r","u","e">>,
                               <<"f","a","l","s","e">>}
        THEN {indented} ELSE {})
       \cup
       (IF bound # <<>> /\ ~HasPrefix(bound, <<"$">>) THEN {bound} ELSE {})

\* One iteration of the line loop of parseViewTreeFile on pd, with
\* currentComponent = cur. The result holds the data as the iteration leaves
\* it, the new currentComponent, and whether the iteration panicked with
\* "assignment to entry in nil map" (the writes made before the panic stay).
ViewTreeLine(pd, filePath, line, cur) ==
    LET isComp == IsComponentLine(line)
        firstWord == FirstField(TrimSpace(line))
        cur1 == IF isComp THEN firstWord ELSE cur
        pd1 == IF isComp
               THEN [pd EXCEPT
                       !.Components = @ \cup {firstWord},
                       !.ComponentFiles = MapPut(@, firstWord, filePath)]
               ELSE pd
        nilFile == isComp /\ filePath \notin DOMAIN pd.FileComponents
        pd2 == IF isComp /\ ~nilFile
               THEN [pd1 EXCEPT
                       !.FileComponents = MapPut(@, filePath, @[filePath] \cup {firstWord}),
                       !.ComponentProperties =
                           IF firstWord \in DOMAIN @ THEN @ ELSE MapPut(@, firstWord, {})]
               ELSE pd1
        props == IF cur1 # <<>> THEN LineProperties(line) ELSE {}
        nilProps == props # {} /\ cur1 \notin DOMAIN pd2.ComponentProperties
        pd3 == IF props # {} /\ ~nilFile /\ ~nilProps
               THEN [pd2 EXCEPT !.ComponentProperties =
                                    MapPut(@, cur1, @[cur1] \cup props)]
               ELSE pd2
    IN [pd |-> pd3, cur |-> cur1, panic |-> nilFile \/ nilProps]

\* an iteration that leaves out FileComponents[filePath][match] = true
TsMatchSkipsFileComponents(pd, filePath, match) ==
    LET pd1 == [pd EXCEPT
                  !.Components = @ \cup {match},
                  !.ComponentFiles =
                      IF match \in DOMAIN @ THEN @ ELSE MapPut(@, match, filePath)]
        nilFile == filePath \notin DOMAIN pd.FileComponents
    IN [pd |-> pd1, cur |-> <<>>, panic |-> nilFile]
\* One iteration of the match loop of parseTsFile on pd.
TsMatch(pd, filePath, match) ==
    LET pd1 == [pd EXCEPT
                  !.Components = @ \cup {match},
                  !.ComponentFiles =
                      IF match \in DOMAIN @ THEN @ ELSE MapPut(@, match, filePath)]
        nilFile == filePath \notin DOMAIN pd.FileComponents
        pd2 == IF nilFile THEN pd1
               ELSE [pd1 EXCEPT !.FileComponents =
                                    MapPut(@, filePath, @[filePath] \cup {match})]
    IN [pd |-> pd2, cur |-> <<>>, panic |-> nilFile]

PathViewTree == <<".","v","i","e","w",".","t","r","e","e">>
PathTs == <<".","t","s">>
IsViewTreePath(filePath) == HasSuffix(filePath, PathViewTree)
IsTsPath(filePath) == ~IsViewTreePath(filePath) /\ HasSuffix(filePath, PathTs)

\* what the loop of a fold-in iterates over: the lines of a .view.tree file,
\* the matches of a .ts file
FoldItems(filePath, content) ==
    IF IsViewTreePath(filePath) THEN SplitLines(content)
    ELSE FindAllComponents(content, 1)

FoldItem(pd, filePath, item, cur) ==
    IF IsViewTreePath(filePath) THEN ViewTreeLine(pd, filePath, item, cur)
    ELSE TsMatch(pd, filePath, item)

\* the components a fold-in of these items records for its file
RECURSIVE ItemComponents(_, _)
ItemComponents(filePath, items) ==
    IF items = <<>> THEN {}
    ELSE (IF IsViewTreePath(filePath)
          THEN (IF IsComponentLine(Head(items))
                THEN {FirstField(TrimSpace(Head(items)))} ELSE {})
          ELSE {Head(items)})
         \cup ItemComponents(filePath, Tail(items))

----------------------------------------------------------------------------
(* The queries of ProjectScanner *)

HasComponent(component) == component \in projectData.Components
GetComponentFile(component) ==
    IF component \in DOMAIN projectData.ComponentFiles
    THEN projectData.ComponentFiles[component] ELSE <<>>
FileComponentsOf(filePath) == MapGet(projectData.FileComponents, filePath)

\* the characters of the names, in the order of their bytes
ByteOrder ==
    <<"$", "*", "0","1","2","3","4","5","6","7","8","9", "?",
      "A","B","C","D","E","F","G","H","I","J","K","L","M",
      "N","O","P","Q","R","S","T","U","V","W","X","Y","Z", "_",
      "a","b","c","d","e","f","g","h","i","j","k","l","m",
      "n","o","p","q","r","s","t","u","v","w","x","y","z">>

\* s < t of Go strings: the order of the bytes at the first difference, a
\* proper prefix before the longer string
StringLess(s, t) ==
    LET Byte(c) == CHOOSE i \in DOMAIN ByteOrder : ByteOrder[i] = c
    IN \E k \in 1..Len(t) :
          /\ k <= Len(s) + 1
          /\ \A j \in 1..(k - 1) : s[j] = t[j]
          /\ k = Len(s) + 1 \/ Byte(s[k]) < Byte(t[k])

\* a sort that puts the greatest string first
SortStringsDescending(strings) ==
    [i \in 1..Cardinality(strings) |->
        CHOOSE s \in strings : Cardinality({t \in strings : StringLess(s, t)}) = i - 1]
\* sort.Strings on the keys of a map: the strings in ascending order
SortStrings(strings) ==
    [i \in 1..Cardinality(strings) |->
        CHOOSE s \in strings : Cardinality({t \in strings : StringLess(t, s)}) = i - 1]

GetPropertiesForComponent(component) ==
    IF component \notin DOMAIN projectData.ComponentProperties THEN <<>>
    ELSE SortStrings(projectData.ComponentProperties[component])
GetAllProperties ==
    SortStrings(UNION {projectData.ComponentProperties[c] :
                          c \in DOMAIN projectData.ComponentProperties})

----------------------------------------------------------------------------
(* The bounded workspace: three files, two components, one property *)

\* in the lexical order of filepath.WalkDir
ViewTreeFiles == << <<"/","a",".","v","i","e","w",".","t","r","e","e">>,
                   <<"/","b",".","v","i","e","w",".","t","r","e","e">> >>
TsFiles == << <<"/","c",".","t","s">> >>
Files == {ViewTreeFiles[k] : k \in DOMAIN ViewTreeFiles}
         \cup {TsFiles[k] : k \in DOMAIN TsFiles}

Comps == {<<"$","A">>, <<"$","B">>}

\* what a .view.tree file may hold: "$A", "$B\n\tp"
ViewTreeTexts == {<<"$","A">>, <<"$","B","\n","\t","p">>}
\* what a .ts file may hold: "", "$A"
TsTexts == {<<>>, <<"$","A">>}
Texts(filePath) == IF IsViewTreePath(filePath) THEN ViewTreeTexts ELSE TsTexts

\* "Limit to first 100 files for performance"
TsScanLimit == 100

\* the client messages of a run, after "initialized"
MaxMessages == 2

Scheme == <<"f","i","l","e",":","/","/">>
UriOf(filePath) == Scheme \o filePath
\* Server.uriToFilePath
UriToFilePath(uri) ==
    IF HasPrefix(uri, Scheme) THEN SubSeq(uri, Len(Scheme) + 1, Len(uri)) ELSE uri

\* the sub-sequences of a sequence, in its order: what a directory walk can list
RECURSIVE SubLists(_)
SubLists(list) ==
    IF list = <<>> THEN {<<>>}
    ELSE LET rest == SubLists(Tail(list))
         IN rest \cup {<<Head(list)>> \o r : r \in rest}

\* tsFiles[:100]
Truncate(list, n) == IF Len(list) > n THEN SubSeq(list, 1, n) ELSE list

----------------------------------------------------------------------------
(* sync.RWMutex of the current ProjectData *)

Unlocked == [writer |-> "none", readers |-> {}]
CanLock(mu) == mu.writer = "none" /\ mu.readers = {}
CanRLock(mu) == mu.writer = "none"
Lock(mu, who) == [mu EXCEPT !.writer = who]
\* an Unlock that leaves the mutex held
UnlockKeepsHolding(mu, who) == mu
Unlock(mu, who) == IF mu.writer = who THEN [mu EXCEPT !.writer = "none"] ELSE mu
RLock(mu, who) == [mu EXCEPT !.readers = @ \cup {who}]
RUnlock(mu, who) == [mu EXCEPT !.readers = @ \ {who}]

----------------------------------------------------------------------------
(* History: which files own a component, oldest claim first *)

NoClaims == [c \in Comps |-> <<>>]

RECURSIVE Without(_, _)
Without(seq, x) ==
    IF seq = <<>> THEN <<>>
    ELSE IF Head(seq) = x THEN Without(Tail(seq), x)
    ELSE <<Head(seq)>> \o Without(Tail(seq), x)

InSeq(seq, x) == \E i \in 1..Len(seq) : seq[i] = x
Before(seq, x, y) == \E i, j \in 1..Len(seq) : i < j /\ seq[i] = x /\ seq[j] = y

Claimed(order, filePath, comps) ==
    [c \in Comps |->
        IF c \in comps
        THEN (IF InSeq(order[c], filePath) THEN order[c]
              ELSE IF IsViewTreePath(filePath)
              THEN SelectSeq(order[c], IsViewTreePath) \o <<filePath>>
                   \o SelectSeq(order[c], IsTsPath)
              ELSE Append(order[c], filePath))
        ELSE Without(order[c], filePath)]

----------------------------------------------------------------------------
(* Which maps a step reads and writes: the outer maps by name, the inner   *)
(* maps FileComponents[f] and ComponentProperties[c] by name and key       *)

ClearAccess(pd, filePath) ==
    [reads |-> {<<"FileComponents">>, <<"FileComponents", filePath>>,
                <<"ComponentFiles">>},
     writes |-> {<<"FileComponents">>}
                \cup (IF ClearFileComponents(pd, filePath).ComponentFiles
                          # pd.ComponentFiles
                      THEN {<<"ComponentFiles">>} ELSE {})]

ItemAccess(pd, filePath, item, cur) ==
    IF IsViewTreePath(filePath)
    THEN LET isComp == IsComponentLine(item)
             cur1 == IF isComp THEN FirstField(TrimSpace(item)) ELSE cur
             props == cur1 # <<>> /\ LineProperties(item) # {}
         IN [reads |-> (IF isComp
                        THEN {<<"FileComponents">>, <<"ComponentProperties">>}
                        ELSE {})
                       \cup (IF props THEN {<<"ComponentProperties">>} ELSE {}),
             writes |-> (IF isComp
                         THEN {<<"Components">>, <<"ComponentFiles">>,
                               <<"FileComponents", filePath>>}
                              \cup (IF cur1 \in DOMAIN pd.ComponentProperties
                                    THEN {} ELSE {<<"ComponentProperties">>})
                         ELSE {})
                        \cup (IF props THEN {<<"ComponentProperties", cur1>>}
                              ELSE {})]
    ELSE [reads |-> {<<"ComponentFiles">>, <<"FileComponents">>},
          writes |-> {<<"Components">>, <<"FileComponents", filePath>>}
                     \cup (IF item \in DOMAIN pd.ComponentFiles THEN {}
                           ELSE {<<"ComponentFiles">>})]

----------------------------------------------------------------------------
(* The two threads *)

MainIdle ==
    [pc |-> "idle", file |-> <<>>, items |-> <<>>, i |-> 0, cur |-> <<>>,
     old |-> {}, inScan |-> FALSE, updated |-> FALSE, refolded |-> FALSE,
     req |-> "none", plan |-> <<>>, after |-> "none",
     capOld |-> FALSE, capComps |-> {},
     comp |-> <<>>, ans |-> <<>>, snaps |-> {}, unlockNew |-> FALSE]

ScanOff ==
    [pc |-> "off", list |-> <<>>, file |-> <<>>, items |-> <<>>, i |-> 0, cur |-> <<>>]

\* ScanProject has been entered and has not returned
ScanRunning ==
    scan.pc \in {"scan_reset", "vt_find", "vt_next", "ts_find", "ts_next",
                 "f_lock", "f_clear", "f_item", "f_unlock",
                 "tail1", "tail1_read", "tail2", "tail2_read"}

\* the sections of a provider on the index: the scanner's own query methods
\* read ps.projectData again after locking; the providers' inline sections
\* keep the pointer GetProjectData() returned
Method(map) == [api |-> "method", map |-> map]
Captured(map) == [api |-> "captured", map |-> map]

\* what getComponentHover reports of a component, as the index has it now
HoverAnswers(component) ==
    [has |-> HasComponent(component),
     file |-> GetComponentFile(component),
     properties |-> GetPropertiesForComponent(component)]

\* the message loop with the index of this instant added to the ones that
\* the hover request in progress has lived through
Seen(m, view) ==
    IF m.req = "hover" /\ m.pc \in {"q_lock", "q_read"}
    THEN [m EXCEPT !.snaps = @ \cup {IF m.comp = <<>> THEN view ELSE view[m.comp]}]
    ELSE m

\* the sections a request can run, by what the cursor is on
Plans(kind) ==
    IF kind = "completion"
    THEN {<<>>,
          <<Captured("Components"), Captured("Components")>>,
          <<Captured("ComponentProperties")>>,
          <<Method("ComponentProperties")>>}
    ELSE IF kind = "hover"
    THEN {<<>>,
          <<Captured("Components"), Method("ComponentFiles"),
            Method("ComponentProperties")>>}
    ELSE {<<>>, <<Method("ComponentFiles")>>}

Init ==
    /\ projectData = NewProjectData
    /\ mutex = Unlocked
    /\ projectScanner = FALSE
    /\ providers = {}
    /\ documents = {}
    /\ main = MainIdle
    /\ scan = ScanOff
    /\ crashed = FALSE
    /\ claimOrder = NoClaims
    /\ handled = 0
    /\ call = [fn |-> "none"]

----------------------------------------------------------------------------
(* The message loop: notifications *)

\* handleInitialized: start the goroutine that runs initializeProviders
HandleInitialized ==
    /\ ~crashed
    /\ UNCHANGED call
    /\ main.pc = "idle"
    /\ scan.pc = "off"
    /\ scan' = [scan EXCEPT !.pc = "init_scanner"]
    /\ UNCHANGED <<projectData, mutex, projectScanner, providers, documents, main,
                   crashed, claimOrder, handled>>

\* handleDidOpen and handleDidChange after documents.Store: the call of
\* UpdateSingleFile up to the first Lock of the fold-in, or up to its return
AfterStore(uri, text) ==
    LET filePath == UriToFilePath(uri)
        wanted == /\ projectScanner
                  /\ (HasSuffix(uri, PathViewTree) \/ HasSuffix(uri, PathTs))
        items == FoldItems(filePath, text)
        folds == \/ IsViewTreePath(filePath)
                 \/ (IsTsPath(filePath) /\ items # <<>>)
    IN [MainIdle EXCEPT
          !.pc = IF wanted /\ folds THEN "u_lock" ELSE "validate",
          !.file = filePath,
          !.items = items,
          !.updated = wanted]

HandleDidOpen ==
    /\ ~crashed
    /\ UNCHANGED call
    /\ main.pc = "idle"
    /\ handled < MaxMessages
    /\ handled' = handled + 1
    /\ \E f \in Files : \E text \in Texts(f) :
          /\ documents' = documents \cup {UriOf(f)}
          /\ main' = AfterStore(UriOf(f), text)
    /\ UNCHANGED <<projectData, mutex, projectScanner, providers, scan, crashed,
                   claimOrder>>

\* a change without a range replaces the whole text
HandleDidChange ==
    /\ ~crashed
    /\ UNCHANGED call
    /\ main.pc = "idle"
    /\ handled < MaxMessages
    /\ handled' = handled + 1
    /\ \E f \in Files : \E text \in Texts(f) :
          /\ UriOf(f) \in documents
          /\ main' = AfterStore(UriOf(f), text)
    /\ UNCHANGED <<projectData, mutex, projectScanner, providers, documents, scan,
                   crashed, claimOrder>>

HandleDidClose ==
    /\ ~crashed
    /\ UNCHANGED call
    /\ main.pc = "idle"
    /\ handled < MaxMessages
    /\ handled' = handled + 1
    /\ \E f \in Files :
          /\ UriOf(f) \in documents
          /\ documents' = documents \ {UriOf(f)}
    /\ UNCHANGED <<projectData, mutex, projectScanner, providers, main, scan, crashed,
                   claimOrder>>

\* parseViewTreeFile / parseTsFile called by UpdateSingleFile: mutex.Lock()
MainLock ==
    /\ ~crashed
    /\ UNCHANGED call
    /\ main.pc = "u_lock"
    /\ CanLock(mutex)
    /\ mutex' = Lock(mutex, "main")
    /\ main' = [main EXCEPT !.pc = "u_clear", !.inScan = ScanRunning]
    /\ UNCHANGED <<projectData, projectScanner, providers, documents, scan, crashed,
                   claimOrder, handled>>

MainClear ==
    /\ ~crashed
    /\ UNCHANGED call
    /\ main.pc = "u_clear"
    /\ projectData' = ClearFileComponents(projectData, main.file)
    /\ main' = [main EXCEPT !.pc = "u_item", !.i = 1,
                            !.old = FileComponentsOf(main.file)]
    /\ UNCHANGED <<mutex, projectScanner, providers, documents, scan, crashed,
                   claimOrder, handled>>

\* one iteration of the loop; a panic unwinds through the deferred Unlock and
\* ends the process, since nothing in Run recovers
MainItem ==
    /\ ~crashed
    /\ UNCHANGED call
    /\ main.pc = "u_item"
    /\ LET r == FoldItem(projectData, main.file, main.items[main.i], main.cur)
           last == main.i = Len(main.items)
       IN /\ projectData' = r.pd
          /\ crashed' = r.panic
          /\ mutex' = IF r.panic THEN Unlock(mutex, "main") ELSE mutex
          /\ main' = IF r.panic THEN [main EXCEPT !.pc = "dead"]
                     ELSE [main EXCEPT !.cur = r.cur,
                                       !.i = IF last THEN @ ELSE @ + 1,
                                       !.pc = IF last THEN "u_unlock" ELSE "u_item"]
    /\ UNCHANGED <<projectScanner, providers, documents, scan, claimOrder, handled>>

\* the deferred mutex.Unlock(), and the return of UpdateSingleFile.  A defer
\* that named the mutex of the replacing index unlocks that one: "fatal
\* error: sync: Unlock of unlocked RWMutex" when no writer holds it, the end
\* of the scan's write lock when the scan holds it
MainUnlock ==
    /\ ~crashed
    /\ UNCHANGED call
    /\ main.pc = "u_unlock"
    /\ mutex' = IF main.unlockNew THEN [mutex EXCEPT !.writer = "none"]
                ELSE Unlock(mutex, "main")
    /\ crashed' = (main.unlockNew /\ mutex.writer = "none")
    /\ claimOrder' = Claimed(claimOrder, main.file,
                             ItemComponents(main.file, main.items))
    /\ main' = [main EXCEPT !.pc = IF main.unlockNew /\ mutex.writer = "none"
                                   THEN "dead" ELSE "validate"]
    /\ UNCHANGED <<projectData, projectScanner, providers, documents, scan, handled>>

\* the root-level component lines of a document: one index section each in
\* validateComponents
RECURSIVE ComponentLineCount(_)
ComponentLineCount(lines) ==
    IF lines = <<>> THEN 0
    ELSE (IF IsComponentLine(Head(lines)) THEN 1 ELSE 0)
         + ComponentLineCount(Tail(lines))

\* validateTextDocument up to the first index section of ProvideDiagnostics
MainValidate ==
    /\ ~crashed
    /\ UNCHANGED call
    /\ main.pc = "validate"
    /\ LET n == ComponentLineCount(main.items)
           plan == [k \in 1..n |-> Captured("Components")]
       IN main' =
            IF "diagnostic" \in providers /\ HasSuffix(UriOf(main.file), PathViewTree)
            THEN [MainIdle EXCEPT !.pc = IF n = 0 THEN "publish" ELSE "q_lock",
                                  !.plan = plan, !.after = "publish"]
            ELSE MainIdle
    /\ UNCHANGED <<projectData, mutex, projectScanner, providers, documents, scan,
                   crashed, claimOrder, handled>>

\* sendNotification("textDocument/publishDiagnostics")
MainPublish ==
    /\ ~crashed
    /\ UNCHANGED call
    /\ main.pc = "publish"
    /\ main' = MainIdle
    /\ UNCHANGED <<projectData, mutex, projectScanner, providers, documents, scan,
                   crashed, claimOrder, handled>>

----------------------------------------------------------------------------
(* The message loop: requests *)

\* handleCompletion, handleHover, handleDefinition: without the provider or
\* the document the result stays nil and the response is sent at once
HandleRequest ==
    /\ ~crashed
    /\ UNCHANGED call
    /\ main.pc = "idle"
    /\ handled < MaxMessages
    /\ handled' = handled + 1
    /\ \E kind \in {"completion", "hover", "definition"} : \E plan \in Plans(kind) :
          /\ plan # <<>> => (kind \in providers /\ documents # {})
          /\ main' = [MainIdle EXCEPT
                        !.req = kind, !.plan = plan, !.after = "respond",
                        !.pc = IF plan = <<>> THEN "respond" ELSE "q_lock",
                        !.snaps = IF kind = "hover" /\ plan # <<>>
                                  THEN {[c \in Comps |-> HoverAnswers(c)]}
                                  ELSE {}]
    /\ UNCHANGED <<projectData, mutex, projectScanner, providers, documents, scan,
                   crashed, claimOrder>>

\* mutex.RLock() of a section
MainQLock ==
    /\ ~crashed
    /\ UNCHANGED call
    /\ main.pc = "q_lock"
    /\ IF Head(main.plan).api = "captured" /\ main.capOld
       THEN mutex' = mutex
       ELSE CanRLock(mutex) /\ mutex' = RLock(mutex, "main")
    /\ main' = [main EXCEPT !.pc = "q_read", !.unlockNew = FALSE]
    /\ UNCHANGED <<projectData, projectScanner, providers, documents, scan, crashed,
                   claimOrder, handled>>

\* the read of a section and its RUnlock; getComponentHover, on a component
\* of the project or on another name, goes on only when the component is
\* known and then asks for its file and for its properties
MainQRead ==
    /\ ~crashed
    /\ UNCHANGED call
    /\ main.pc = "q_read"
    /\ mutex' = IF main.unlockNew THEN [mutex EXCEPT !.readers = {}]
                ELSE RUnlock(mutex, "main")
    /\ crashed' = (main.unlockNew /\ mutex.readers = {})
    /\ LET sec == Head(main.plan)
           comps == IF sec.api = "captured" /\ main.capOld
                    THEN main.capComps ELSE projectData.Components
           rest == Tail(main.plan)
           pc == IF rest = <<>> THEN main.after ELSE "q_lock"
       IN IF main.unlockNew /\ mutex.readers = {}
          \* the deferred RUnlock of the mutex of the replacing index: "fatal
          \* error: sync: RUnlock of unlocked RWMutex"
          THEN main' = [main EXCEPT !.pc = "dead"]
          ELSE IF main.req # "hover"
          THEN main' = [main EXCEPT !.plan = rest, !.pc = pc]
          ELSE IF sec = Captured("Components")
          THEN \E componentName \in Comps \cup {<<"$", "Z">>} :
                  main' = IF componentName \in comps
                          THEN [main EXCEPT
                                  !.plan = rest, !.pc = pc,
                                  !.comp = componentName, !.ans = <<TRUE>>,
                                  !.snaps = {view[componentName] :
                                               view \in @ \cup {[c \in Comps |->
                                                                   HoverAnswers(c)]}}]
                          ELSE [main EXCEPT !.plan = <<>>, !.pc = main.after,
                                            !.snaps = {}]
          ELSE main' = [main EXCEPT
                          !.plan = rest, !.pc = pc,
                          !.ans = Append(@, IF sec.map = "ComponentFiles"
                                            THEN GetComponentFile(main.comp)
                                            ELSE GetPropertiesForComponent(main.comp)),
                          !.snaps = @ \cup {HoverAnswers(main.comp)}]
    /\ UNCHANGED <<projectData, projectScanner, providers, documents, scan,
                   claimOrder, handled>>

\* sendResponse(msg.ID, result)
MainRespond ==
    /\ ~crashed
    /\ UNCHANGED call
    /\ main.pc = "respond"
    /\ main' = MainIdle
    /\ UNCHANGED <<projectData, mutex, projectScanner, providers, documents, scan,
                   crashed, claimOrder, handled>>

----------------------------------------------------------------------------
(* The goroutine of handleInitialized: initializeProviders and ScanProject *)

ProviderOrder == <<"definition", "completion", "hover", "diagnostic">>

\* s.projectScanner = NewProjectScanner(workspaceRoot)
ScanInitScanner ==
    /\ ~crashed
    /\ UNCHANGED call
    /\ scan.pc = "init_scanner"
    /\ projectScanner' = TRUE
    /\ projectData' = NewProjectData
    /\ mutex' = Unlocked
    /\ scan' = [scan EXCEPT !.pc = "init", !.i = 1]
    /\ UNCHANGED <<providers, documents, main, crashed, claimOrder, handled>>

\* s.definitionProvider = ..., s.completionProvider = ..., s.hoverProvider = ...,
\* s.diagnosticProvider = ..., one assignment a step
ScanInitProvider ==
    /\ ~crashed
    /\ UNCHANGED call
    /\ \E k \in 1..Len(ProviderOrder) :
          /\ scan.pc = "init" /\ scan.i = k
          /\ providers' = providers \cup {ProviderOrder[k]}
          /\ scan' = IF k = Len(ProviderOrder)
                     THEN [scan EXCEPT !.pc = "scan_enter", !.i = 0]
                     ELSE [scan EXCEPT !.i = k + 1]
    /\ UNCHANGED <<projectData, mutex, projectScanner, documents, main, crashed,
                   claimOrder, handled>>

\* ScanProject is entered
ScanEnter ==
    /\ ~crashed
    /\ UNCHANGED call
    /\ scan.pc = "scan_enter"
    /\ scan' = [scan EXCEPT !.pc = "scan_reset"]
    /\ UNCHANGED <<projectData, mutex, projectScanner, providers, documents, main,
                   crashed, claimOrder, handled>>

\* ps.projectData = NewProjectData(): a new index with a new mutex; a section
\* of a provider that took the pointer before goes on with the replaced index
ScanReset ==
    /\ ~crashed
    /\ UNCHANGED call
    /\ scan.pc = "scan_reset"
    /\ projectData' = NewProjectData
    /\ mutex' = Unlocked
    /\ claimOrder' = NoClaims
    /\ main' = Seen(IF /\ main.pc \in {"q_lock", "q_read"}
                       /\ Head(main.plan).api = "captured"
                       /\ ~main.capOld
                    THEN [main EXCEPT !.capOld = TRUE,
                                      !.capComps = projectData.Components]
                    ELSE main,
                    [c \in Comps |-> HoverAnswers(c)]')
    /\ scan' = [scan EXCEPT !.pc = "vt_find"]
    /\ UNCHANGED <<projectScanner, providers, documents, crashed, handled>>

\* the same assignment when a method of the scanner on the message loop has
\* run ps.projectData.mutex.Lock() or RLock() and not yet the statement
\* "defer ps.projectData.mutex.Unlock()", which reads the pointer again: the
\* deferred unlock is that of the new mutex
ScanResetBeforeDefer ==
    /\ ~crashed
    /\ UNCHANGED call
    /\ scan.pc = "scan_reset"
    /\ \/ main.pc = "u_clear"
       \/ main.pc = "q_read" /\ Head(main.plan).api = "method"
    /\ projectData' = NewProjectData
    /\ mutex' = Unlocked
    /\ claimOrder' = NoClaims
    /\ main' = Seen([main EXCEPT !.unlockNew = TRUE],
                    [c \in Comps |-> HoverAnswers(c)]')
    /\ scan' = [scan EXCEPT !.pc = "vt_find"]
    /\ UNCHANGED <<projectScanner, providers, documents, crashed, handled>>

\* findFiles: the files of the grammar that the walk lists
ScanFind ==
    /\ ~crashed
    /\ UNCHANGED call
    /\ \/ /\ scan.pc = "vt_find"
          /\ \E list \in SubLists(ViewTreeFiles) :
                scan' = [scan EXCEPT !.pc = "vt_next", !.list = list]
       \/ /\ scan.pc = "ts_find"
          /\ \E list \in SubLists(TsFiles) :
                scan' = [scan EXCEPT !.pc = "ts_next",
                                     !.list = Truncate(list, TsScanLimit)]
    /\ UNCHANGED <<projectData, mutex, projectScanner, providers, documents, main,
                   crashed, claimOrder, handled>>

\* the head of the loop over the files: os.ReadFile, which can fail, and the
\* call of the parse up to its Lock
ScanNext ==
    /\ ~crashed
    /\ UNCHANGED call
    /\ scan.pc \in {"vt_next", "ts_next"}
    /\ IF scan.list = <<>>
       THEN scan' = [ScanOff EXCEPT !.pc = IF scan.pc = "vt_next" THEN "ts_find"
                                           ELSE "tail1"]
       ELSE LET filePath == Head(scan.list)
                rest == [ScanOff EXCEPT !.pc = scan.pc, !.list = Tail(scan.list)]
            IN \/ scan' = rest
               \/ \E text \in Texts(filePath) :
                     LET items == FoldItems(filePath, text)
                     IN scan' = IF IsTsPath(filePath) /\ items = <<>> THEN rest
                                ELSE [rest EXCEPT !.pc = "f_lock", !.file = filePath,
                                                  !.items = items]
    /\ UNCHANGED <<projectData, mutex, projectScanner, providers, documents, main,
                   crashed, claimOrder, handled>>

ScanLock ==
    /\ ~crashed
    /\ UNCHANGED call
    /\ scan.pc = "f_lock"
    /\ CanLock(mutex)
    /\ mutex' = Lock(mutex, "scan")
    /\ scan' = [scan EXCEPT !.pc = "f_clear"]
    /\ UNCHANGED <<projectData, projectScanner, providers, documents, main, crashed,
                   claimOrder, handled>>

ScanClear ==
    /\ ~crashed
    /\ UNCHANGED call
    /\ scan.pc = "f_clear"
    /\ projectData' = ClearFileComponents(projectData, scan.file)
    /\ scan' = [scan EXCEPT !.pc = "f_item", !.i = 1]
    /\ main' = Seen(main, [c \in Comps |-> HoverAnswers(c)]')
    /\ UNCHANGED <<mutex, projectScanner, providers, documents, crashed,
                   claimOrder, handled>>

\* one iteration of the loop; a panic unwinds through the deferred Unlock to
\* the recover of initializeProviders, which ends the goroutine
ScanItem ==
    /\ ~crashed
    /\ UNCHANGED call
    /\ scan.pc = "f_item"
    /\ LET r == FoldItem(projectData, scan.file, scan.items[scan.i], scan.cur)
           last == scan.i = Len(scan.items)
       IN /\ projectData' = r.pd
          /\ mutex' = IF r.panic THEN Unlock(mutex, "scan") ELSE mutex
          /\ crashed' = (r.panic /\ mutex.writer = "none")
          /\ scan' = IF r.panic THEN [ScanOff EXCEPT !.pc = "done"]
                     ELSE [scan EXCEPT !.cur = r.cur,
                                       !.i = IF last THEN @ ELSE @ + 1,
                                       !.pc = IF last THEN "f_unlock" ELSE "f_item"]
    /\ main' = Seen(main, [c \in Comps |-> HoverAnswers(c)]')
    /\ UNCHANGED <<projectScanner, providers, documents, claimOrder, handled>>

\* the deferred mutex.Unlock() and the return to the loop: a fatal error
\* when an Unlock of the message loop has released the lock already
ScanUnlock ==
    /\ ~crashed
    /\ UNCHANGED call
    /\ scan.pc = "f_unlock"
    /\ mutex' = IF mutex.writer = "scan" THEN Unlock(mutex, "scan")
                ELSE [mutex EXCEPT !.writer = "none"]
    /\ crashed' = (mutex.writer = "none")
    /\ claimOrder' = Claimed(claimOrder, scan.file,
                             ItemComponents(scan.file, scan.items))
    /\ main' = IF /\ main.file = scan.file
                  /\ main.inScan
                  /\ main.pc \in {"u_clear", "u_item", "u_unlock", "validate"}
               THEN [main EXCEPT !.refolded = TRUE]
               ELSE main
    /\ scan' = [ScanOff EXCEPT !.pc = IF IsViewTreePath(scan.file) THEN "vt_next"
                                      ELSE "ts_next",
                               !.list = scan.list, !.file = scan.file]
    /\ UNCHANGED <<projectData, projectScanner, providers, documents, handled>>

\* the two read sections at the end of ScanProject: RLock
ScanTailLock ==
    /\ ~crashed
    /\ UNCHANGED call
    /\ scan.pc \in {"tail1", "tail2"}
    /\ CanRLock(mutex)
    /\ mutex' = RLock(mutex, "scan")
    /\ scan' = [scan EXCEPT !.pc = IF scan.pc = "tail1" THEN "tail1_read"
                                   ELSE "tail2_read"]
    /\ UNCHANGED <<projectData, projectScanner, providers, documents, main, crashed,
                   claimOrder, handled>>

\* the read and the RUnlock, a fatal error when an RUnlock of the message
\* loop has released the read lock already; after the second, ScanProject
\* returns
ScanTailRead ==
    /\ ~crashed
    /\ UNCHANGED call
    /\ scan.pc \in {"tail1_read", "tail2_read"}
    /\ mutex' = RUnlock(mutex, "scan")
    /\ crashed' = ("scan" \notin mutex.readers)
    /\ scan' = [scan EXCEPT !.pc = IF scan.pc = "tail1_read" THEN "tail2" ELSE "done"]
    /\ UNCHANGED <<projectData, projectScanner, providers, documents, main,
                   claimOrder, handled>>

----------------------------------------------------------------------------
(* Unsynchronised access: the message loop inside a section whose lock      *)
(* belongs to a replaced index works on the index the scan is filling       *)

MainStale ==
    \/ main.pc \in {"u_clear", "u_item", "u_unlock"} /\ mutex.writer # "main"
    \/ /\ main.pc = "q_read"
       /\ Head(main.plan).api = "method"
       /\ "main" \notin mutex.readers

\* what the next step of the message loop touches without the lock
MainAccess ==
    IF ~MainStale THEN [reads |-> {}, writes |-> {}]
    ELSE IF main.pc = "u_clear" THEN ClearAccess(projectData, main.file)
    ELSE IF main.pc = "u_item"
    THEN ItemAccess(projectData, main.file, main.items[main.i], main.cur)
    ELSE IF main.pc = "q_read"
    THEN [reads |-> {<<Head(main.plan).map>>}
                    \cup (IF Head(main.plan).map = "ComponentProperties"
                          THEN {<<"ComponentProperties", c>> : c \in Comps}
                          ELSE {}),
          writes |-> {}]
    ELSE [reads |-> {}, writes |-> {}]

\* what the next step of the scan touches
ScanAccess ==
    IF scan.pc = "f_clear" THEN ClearAccess(projectData, scan.file)
    ELSE IF scan.pc = "f_item"
    THEN ItemAccess(projectData, scan.file, scan.items[scan.i], scan.cur)
    ELSE IF scan.pc = "tail2_read" THEN [reads |-> {<<"Components">>}, writes |-> {}]
    ELSE [reads |-> {}, writes |-> {}]

\* the next steps of the two threads touch one map, and one of them writes it
Racing ==
    \/ MainAccess.writes \cap (ScanAccess.writes \cup ScanAccess.reads) # {}
    \/ MainAccess.reads \cap ScanAccess.writes # {}

\* the Go runtime can detect the concurrent map access: "fatal error:
\* concurrent map read and map write", which no recover catches
RaceFatal ==
    /\ ~crashed
    /\ UNCHANGED call
    /\ Racing
    /\ crashed' = TRUE
    /\ UNCHANGED <<projectData, mutex, projectScanner, providers, documents, main,
                   scan, claimOrder, handled>>

----------------------------------------------------------------------------

Next ==
    \/ HandleInitialized
    \/ HandleDidOpen
    \/ HandleDidChange
    \/ HandleDidClose
    \/ MainLock
    \/ MainClear
    \/ MainItem
    \/ MainUnlock
    \/ MainValidate
    \/ MainPublish
    \/ HandleRequest
    \/ MainQLock
    \/ MainQRead
    \/ MainRespond
    \/ ScanInitScanner
    \/ ScanInitProvider
    \/ ScanEnter
    \/ ScanReset
    \/ ScanFind
    \/ ScanNext
    \/ ScanLock
    \/ ScanClear
    \/ ScanItem
    \/ ScanUnlock
    \/ ScanTailLock
    \/ ScanTailRead
    \/ RaceFatal

Spec == Init /\ [][Next]_vars

\* the server where the replacement of the index may also fall between a
\* Lock and its defer
DeferNext == Next \/ ScanResetBeforeDefer

DeferSpec == Init /\ [][DeferNext]_vars

----------------------------------------------------------------------------
(* The index after a fold-in *)

\* C1: when UpdateSingleFile has folded new content into a .view.tree file
\* (the fold-in stands before its Unlock, holding the lock of the current
\* index), every component of the new content is a component, and a component
\* the file declared before, declares no more, and that no other file holds,
\* is not a component any more
C1_UpdateDropsRenamedComponent ==
    (main.pc = "u_unlock" /\ mutex.writer = "main" /\ IsViewTreePath(main.file)) =>
        LET new == ItemComponents(main.file, main.items)
        IN /\ \A c \in new : HasComponent(c)
           /\ \A c \in main.old \ new :
                 (\A g \in Files \ {main.file} : c \notin FileComponentsOf(g))
                 => ~HasComponent(c)

\* C2: on the step by which UpdateSingleFile returns (from the Unlock of the
\* fold-in, or at once), FileComponents[path] is the set of components taken
\* from the content, and ComponentFiles maps to path only components of it
C2_UpdateReplacesFileEntries ==
    [][(/\ main.pc \in {"idle", "u_unlock"}
        /\ main'.pc = "validate"
        /\ main'.updated
        /\ (main.pc = "u_unlock" => mutex.writer = "main"))
       => LET f == main'.file
              new == ItemComponents(f, main'.items)
          IN /\ MapGet(projectData'.FileComponents, f) = new
             /\ \A c \in DOMAIN projectData'.ComponentFiles :
                   projectData'.ComponentFiles[c] = f => c \in new]_vars

\* C3: whenever the server runs and no fold-in is under way, for every file f
\* and every component c of FileComponents[f], ComponentFiles[c] is f or
\* another file holding c that comes before f: a .view.tree file before a .ts
\* file, and of two files of one grammar the one that claimed c earlier
C3_AttributionInvariant ==
    (/\ ~crashed
     /\ mutex.writer = "none"
     /\ main.pc \notin {"u_clear", "u_item", "u_unlock"}) =>
        \A f \in DOMAIN projectData.FileComponents :
            \A c \in projectData.FileComponents[f] :
                /\ c \in DOMAIN projectData.ComponentFiles
                /\ LET g == projectData.ComponentFiles[c]
                   IN \/ g = f
                      \/ /\ c \in FileComponentsOf(g)
                         /\ \/ IsViewTreePath(g) /\ IsTsPath(f)
                            \/ /\ IsViewTreePath(g) = IsViewTreePath(f)
                               /\ Before(claimOrder[c], g, f)

\* C4: whenever the server runs and no fold-in is under way, a component that
\* one .view.tree file f1, and no other, declares and that a .ts file mentions
\* has f1 as its component file
C4_DeclarationOverReference ==
    (/\ ~crashed
     /\ mutex.writer = "none"
     /\ main.pc \notin {"u_clear", "u_item", "u_unlock"}) =>
        \A c \in Comps : \A f1, f2 \in Files :
            (/\ IsViewTreePath(f1) /\ c \in FileComponentsOf(f1)
             /\ IsTsPath(f2) /\ c \in FileComponentsOf(f2)
             /\ \A g \in Files \ {f1} :
                   IsViewTreePath(g) => c \notin FileComponentsOf(g))
            => GetComponentFile(c) = f1

\* C5: whenever the server runs and no fold-in is under way, of the .view.tree
\* files that declare a component the one that claimed it first is its
\* component file
C5_FirstClaimKeepsAttribution ==
    (/\ ~crashed
     /\ mutex.writer = "none"
     /\ main.pc \notin {"u_clear", "u_item", "u_unlock"}) =>
        \A c \in Comps : \A f1, f2 \in Files :
            (/\ IsViewTreePath(f1) /\ c \in FileComponentsOf(f1)
             /\ IsViewTreePath(f2) /\ c \in FileComponentsOf(f2)
             /\ Before(claimOrder[c], f1, f2)
             /\ \A g \in Files \ {f1} :
                   (IsViewTreePath(g) /\ InSeq(claimOrder[c], g))
                   => Before(claimOrder[c], f1, g))
            => GetComponentFile(c) = f1

----------------------------------------------------------------------------
(* The scan against the message loop *)

\* C6: once ScanProject has returned, when an UpdateSingleFile that took the
\* lock after ScanProject was entered has returned and the scan has not
\* folded the same file in since, every component of the content of the
\* update is a component and is in FileComponents of the file
C6_UpdateInScanIsKept ==
    (/\ ~crashed
     /\ scan.pc = "done"
     /\ main.pc = "validate"
     /\ main.updated
     /\ main.inScan
     /\ ~main.refolded) =>
        \A c \in ItemComponents(main.file, main.items) :
            HasComponent(c) /\ c \in FileComponentsOf(main.file)

\* C7: a thread that writes the index (the fold-ins, and the replacement of
\* the index by ScanProject) never runs while the other thread writes or
\* reads the index
C7_ReaderWriterExclusion ==
    LET mainWrites == main.pc \in {"u_clear", "u_item"}
        mainReads == /\ main.pc = "q_read"
                     /\ ~(Head(main.plan).api = "captured" /\ main.capOld)
        scanWrites == scan.pc \in {"scan_reset", "f_clear", "f_item"}
        scanReads == scan.pc \in {"tail1_read", "tail2_read"}
    IN /\ ~(scanWrites /\ (mainWrites \/ mainReads))
       /\ ~(mainWrites /\ scanReads)

\* C8: no query method of the scanner reads the index while a fold-in of the
\* scan stands between the removal of the old entries of its file and the
\* insertion of the new ones
C8_FoldInAtomicForQueries ==
    ~(/\ scan.pc = "f_item"
      /\ scan.i = 1
      /\ main.pc = "q_read"
      /\ Head(main.plan).api = "method")

C10_RequestGetsResponse ==
    ~(crashed /\ main.req # "none")

----------------------------------------------------------------------------
(* Functions of the server applied on their own: the text functions of the *)
(* message handlers, the structural parser and the providers.  A behaviour *)
(* starts with the arguments and applies one function to them.             *)

\* the lines and the columns a position may name, from 0
MaxLine == 4
MaxChar == 4

\* the document texts
Contents ==
    {<<>>,
     <<"$","A">>,
     <<"$","A","\n","\t","p">>,
     <<"\t","p">>,
     <<"\t","<","="," ","b"," ","$","C">>,
     <<"$","A","\n"," "," ","p">>,
     <<"$","A","\n","\t","b"," ","<","="," ","c"," ","$","D">>,
     <<" ","$","A">>,
     <<"$","A","\n","\t","b"," ","<","="," ","c">>,
     <<"$","A","\n","\t","<","="," ","b"," ","$","C","\n","\t","\t","x","\n","\t","d","\n","\t","\t","e">>,
     <<"$","A","\n","\t","$","B">>,
     <<"$","A","\n","\t","^","b">>,
     <<"$","A","\n","\t","d"," ","<","=",">"," ","e">>,
     <<"p"," ","q">>,
     <<"$","A","\n","\t","p","\n","$","B">>,
     <<"$","A","\n","$","B","\n","$","A","\n","$","A">>,
     <<"$","A","\n","\t","\t","<","="," ","c"," ","$","C","\n","\t","d","\n","\t","\t","e">>,
     <<"$","A"," ","$","B","\n","\t","a"," ","1","\n","\t","b"," ","<","="," ","c","\n","\t","f"," ","^"," ","g">>}

\* applyTextChange with offsets that do not count the newline of a line
ApplyTextChangeNoNewline(text, changeRange, newText) ==
    LET lines == SplitLines(text)
        PositionToOffset(ls, pos) ==
            LET n == IF pos.line < Len(ls) THEN pos.line ELSE Len(ls)
                offset[i \in 0..n] ==
                    IF i = 0 THEN 0 ELSE offset[i - 1] + Len(ls[i])
            IN offset[n] + (IF pos.line < Len(ls) THEN pos.character ELSE 0)
        startOffset == PositionToOffset(lines, changeRange.start)
        endOffset == PositionToOffset(lines, changeRange.end)
        panic == startOffset > Len(text) \/ endOffset > Len(text)
    IN [startOffset |-> startOffset, endOffset |-> endOffset, panic |-> panic,
        text |-> IF panic THEN <<>>
                 ELSE SubSeq(text, 1, startOffset) \o newText
                      \o SubSeq(text, endOffset + 1, Len(text))]
\* Server.applyTextChange with Server.positionToOffset: text[:startOffset] and
\* text[endOffset:] panic when the offset is beyond the text
ApplyTextChange(text, changeRange, newText) ==
    LET lines == SplitLines(text)
        PositionToOffset(ls, pos) ==
            LET n == IF pos.line < Len(ls) THEN pos.line ELSE Len(ls)
                offset[i \in 0..n] ==
                    IF i = 0 THEN 0 ELSE offset[i - 1] + Len(ls[i]) + 1
            IN offset[n] + (IF pos.line < Len(ls) THEN pos.character ELSE 0)
        startOffset == PositionToOffset(lines, changeRange.start)
        endOffset == PositionToOffset(lines, changeRange.end)
        panic == startOffset > Len(text) \/ endOffset > Len(text)
    IN [startOffset |-> startOffset, endOffset |-> endOffset, panic |-> panic,
        text |-> IF panic THEN <<>>
                 ELSE SubSeq(text, 1, startOffset) \o newText
                      \o SubSeq(text, endOffset + 1, Len(text))]

\* ViewTreeParser.extractComponentReference: the regexps `<=\s+\w+\s+(\$\w+)`,
\* `=>\s+\w+\s+(\$\w+)` and `<=>\s+\w+\s+(\$\w+)` tried in this order on the
\* trimmed line; group 1 of the leftmost match of the first that matches
ExtractComponentReference(line) ==
    LET ops == << <<"<", "=">>, <<"=", ">">>, <<"<", "=", ">">> >>
        \* the pattern of op matches s at i with its group starting at d
        At(s, op, i, d) ==
            /\ i + Len(op) - 1 <= Len(s)
            /\ SubSeq(s, i, i + Len(op) - 1) = op
            /\ \E b \in {i + Len(op) + RunLen(s, i + Len(op), SpaceChars)} :
                  /\ b > i + Len(op)
                  /\ \E c \in {b + RunLen(s, b, WordChars)} :
                        /\ c > b
                        /\ d = c + RunLen(s, c, SpaceChars)
                        /\ d > c
            /\ s[d] = "$"
            /\ RunLen(s, d + 1, WordChars) > 0
        \* the first pattern that matches s, at its leftmost match
        First(all) ==
            {m \in all : \A o \in all : m[1] < o[1] \/ (m[1] = o[1] /\ m[2] <= o[2])}
        Group(s, all) ==
            IF all = {} THEN <<>>
            ELSE CHOOSE ref \in {SubSeq(s, m[3], m[3] + RunLen(s, m[3] + 1, WordChars)) :
                                    m \in First(all)} : TRUE
        Find(s) ==
            Group(s, {m \in (1..3) \X (1..Len(s)) \X (1..Len(s)) :
                         At(s, ops[m[1]], m[2], m[3])})
    IN Find(TrimSpace(line))

\* ViewTreeParser.extractComponentFromLine: the same patterns, then the direct
\* reference `^\s*(\$\w+)` on the trimmed line
ExtractComponentFromLine(line) ==
    LET Direct(s) ==
            IF s # <<>> /\ s[1] = "$" /\ RunLen(s, 2, WordChars) > 0
            THEN SubSeq(s, 1, 1 + RunLen(s, 2, WordChars))
            ELSE <<>>
        Or(ref) == IF ref # <<>> THEN ref ELSE Direct(TrimSpace(line))
    IN Or(ExtractComponentReference(line))

\* ViewTreeParser.getIndentLevel: the leading tabs
GetIndentLevel(line) == RunLen(line, 1, {"\t"})

\* getWordRange with the position of the word counted from one
GetWordRangeFromOne(lineIndex, line, word) ==
    LET start == CHOOSE i \in 1..Len(line) :
                     /\ i + Len(word) - 1 <= Len(line)
                     /\ SubSeq(line, i, i + Len(word) - 1) = word
                     /\ \A j \in 1..(i - 1) :
                           SubSeq(line, j, j + Len(word) - 1) # word
    IN [start |-> [line |-> lineIndex, character |-> start],
        end |-> [line |-> lineIndex, character |-> start + Len(word)]]
\* ViewTreeParser.getWordRange, with start == strings.Index(line, word)
GetWordRange(lineIndex, line, word) ==
    LET start == (CHOOSE i \in 1..Len(line) :
                     /\ i + Len(word) - 1 <= Len(line)
                     /\ SubSeq(line, i, i + Len(word) - 1) = word
                     /\ \A j \in 1..(i - 1) :
                           SubSeq(line, j, j + Len(word) - 1) # word) - 1
    IN [start |-> [line |-> lineIndex, character |-> start],
        end |-> [line |-> lineIndex, character |-> start + Len(word)]]

\* the binding type with "<=" looked for before "<=>"
BindingTypeOneWayFirst(trimmed) ==
    IF Contains(trimmed, <<"<", "=">>) THEN "one-way"
    ELSE IF Contains(trimmed, <<"<", "=", ">">>) THEN "two-way"
    ELSE IF Contains(trimmed, <<"^">>) THEN "override"
    ELSE ""
\* the binding type Parse records for a property line, from its trimmed text
BindingType(trimmed) ==
    IF Contains(trimmed, <<"<", "=">>) \/ Contains(trimmed, <<"<", "=", ">">>)
    THEN (IF Contains(trimmed, <<"<", "=", ">">>) THEN "two-way"
          ELSE IF Contains(trimmed, <<"<", "=">>) THEN "one-way"
          ELSE "")
    ELSE IF Contains(trimmed, <<"^">>) THEN "override"
    ELSE ""

\* the value Parse records for a property line, from its trimmed text
PropertyValue(trimmed) ==
    LET ident(i) == RunLen(trimmed, i + 1, IdentChars) + 1
        \* `<=>\s*([a-zA-Z_][a-zA-Z0-9_?*]*)|<=\s*([a-zA-Z_][a-zA-Z0-9_?*]*)`:
        \* where the group starts when an alternative matches at i, else 0
        Group(i) ==
            LET a == i + 3 + RunLen(trimmed, i + 3, SpaceChars)
                b == i + 2 + RunLen(trimmed, i + 2, SpaceChars)
            IN IF ~(i + 1 <= Len(trimmed) /\ trimmed[i] = "<" /\ trimmed[i + 1] = "=")
               THEN 0
               ELSE IF /\ i + 2 <= Len(trimmed) /\ trimmed[i + 2] = ">"
                       /\ a <= Len(trimmed) /\ IsIdentStart(trimmed[a])
               THEN a
               ELSE IF b <= Len(trimmed) /\ IsIdentStart(trimmed[b])
               THEN b ELSE 0
        matches == {i \in 1..Len(trimmed) : Group(i) > 0}
        first == CHOOSE k \in matches : \A j \in matches : k <= j
        \* `^[a-zA-Z_$][a-zA-Z0-9_?*]*\s+(.+)$`
        name == 1 + RunLen(trimmed, 2, IdentChars)
        gap == RunLen(trimmed, name + 1, SpaceChars)
    IN IF Contains(trimmed, <<"<", "=">>)
       THEN (IF matches = {} THEN <<>>
             ELSE SubSeq(trimmed, Group(first), Group(first) + ident(Group(first)) - 1))
       ELSE IF Contains(trimmed, <<"^">>) THEN <<>>
       ELSE IF /\ trimmed # <<>>
               /\ (IsIdentStart(trimmed[1]) \/ trimmed[1] = "$")
               /\ gap > 0 /\ name + gap < Len(trimmed)
       THEN TrimSpace(SubSeq(trimmed, name + gap + 1, Len(trimmed)))
       ELSE <<>>

\* "Finish previous root component" without the assignment of EndLine
FinishRootComponentKeepsEndLine(components, root, endLine) ==
    IF root = <<>> THEN components ELSE Append(components, root[1])
\* "Finish previous root component" and "Finish last root component" of Parse:
\* the open root component, if any, ends at endLine and joins the result
FinishRootComponent(components, root, endLine) ==
    IF root = <<>> THEN components
    ELSE Append(components, [root[1] EXCEPT !.EndLine = endLine])

\* the loop of ViewTreeParser.Parse over the field vtp.lines.  root is the
\* sequence of at most one open root component (componentStack[0] is the same
\* object), stack the components that compound-reference lines registered at
\* the levels above 0
ParseLines(lines) ==
    LET Component(name, lineIndex, line) ==
            [Name |-> name, Range |-> GetWordRange(lineIndex, line, name),
             Properties |-> <<>>, StartLine |-> lineIndex, EndLine |-> lineIndex]
        Finish(st, endLine) == FinishRootComponent(st.Components, st.root, endLine)
        Step(st, k) ==
            LET line == lines[k]
                lineIndex == k - 1
                trimmed == TrimSpace(line)
                indentLevel == GetIndentLevel(line)
                firstWord == FirstField(trimmed)
                rootRange == GetWordRange(lineIndex, line, firstWord)
                componentRef == ExtractComponentReference(line)
                stack1 == IF componentRef = <<>> THEN st.stack
                          ELSE MapPut(st.stack, indentLevel,
                                      Component(componentRef, lineIndex, line))
                levels == {l \in DOMAIN stack1 : l <= indentLevel}
                level == IF levels = {} THEN 0
                         ELSE CHOOSE l \in levels : \A m \in levels : m <= l
                ws == RunLen(line, 1, SpaceChars)
                \* `^(\s+)([a-zA-Z_$][a-zA-Z0-9_?*]*)`
                wordMatch == /\ ws > 0 /\ ws < Len(line)
                             /\ (IsIdentStart(line[ws + 1]) \/ line[ws + 1] = "$")
                propertyName ==
                    SubSeq(line, ws + 1, ws + 1 + RunLen(line, ws + 2, IdentChars))
                isBinding == Contains(trimmed, <<"<", "=">>)
                property ==
                    [Name |-> propertyName,
                     Range |-> GetWordRange(lineIndex, line, propertyName),
                     Line |-> lineIndex, IndentLevel |-> indentLevel,
                     IsBinding |-> isBinding,
                     BindingType |-> BindingType(trimmed),
                     Value |-> PropertyValue(trimmed)]
                node(type, name, range) ==
                    [Type |-> type, Name |-> name, Range |-> range,
                     Line |-> lineIndex, IndentLevel |-> indentLevel]
            IN IF line = <<>> \/ trimmed = <<>> \/ HasPrefix(trimmed, <<"/", "/">>)
               THEN st
               ELSE IF indentLevel = 0 /\ HasPrefix(trimmed, <<"$">>)
               THEN [st EXCEPT
                       !.Components = Finish(st, lineIndex - 1),
                       !.stack = EmptyMap,
                       !.root = <<Component(firstWord, lineIndex, line)>>,
                       !.Nodes = Append(@,
                           node(IF lineIndex = 0 /\ rootRange.start.character = 1
                                THEN "root_class" ELSE "class",
                                firstWord, rootRange))]
               ELSE IF indentLevel = 0 THEN st
               ELSE IF levels = {} /\ st.root = <<>>
               THEN [st EXCEPT
                       !.Errors = Append(@,
                           [Message |-> "Property defined outside of component",
                            Range |-> [start |-> [line |-> lineIndex, character |-> 0],
                                       end |-> [line |-> lineIndex,
                                                character |-> Len(line)]],
                            Severity |-> "error"])]
               ELSE IF ~wordMatch THEN [st EXCEPT !.stack = stack1]
               ELSE IF levels = {}
               THEN [st EXCEPT
                       !.stack = stack1,
                       !.root[1].Properties = Append(@, property),
                       !.Nodes = Append(@, node(
                           IF propertyName[1] = "$" THEN "comp"
                           ELSE IF indentLevel = 1 THEN "prop" ELSE "sub_prop",
                           propertyName, property.Range))]
               ELSE [st EXCEPT
                       !.stack = [stack1 EXCEPT ![level].Properties = Append(@, property)],
                       !.Nodes = Append(@, node(
                           IF propertyName[1] = "$" THEN "comp"
                           ELSE IF indentLevel = 1 THEN "prop" ELSE "sub_prop",
                           propertyName, property.Range))]
        run[k \in 0..Len(lines)] ==
            IF k = 0
            THEN [Components |-> <<>>, Nodes |-> <<>>, Errors |-> <<>>,
                  stack |-> EmptyMap, root |-> <<>>]
            ELSE Step(run[k - 1], k)
        last == run[Len(lines)]
    IN [Components |-> Finish(last, Len(lines) - 1),
        Nodes |-> last.Nodes, Errors |-> last.Errors]

\* the lines of the content added to the ones the field holds
SetLinesAppends(vtpLines, content) == vtpLines \o SplitLines(content)
\* the assignment vtp.lines = strings.Split(content, "\n") that Parse,
\* GetWordRangeAtPosition and GetCurrentComponent start with: the new value
\* of the field, whatever it held
SetLines(vtpLines, content) == SplitLines(content)

\* ViewTreeParser.Parse
Parse(content) == ParseLines(SetLines(<<>>, content))

\* ProjectScanner.parseViewTreeFile on a new index, all of it in one step
ParseViewTreeFile(content, filePath) ==
    LET lines == FoldItems(filePath, content)
        run[k \in 0..Len(lines)] ==
            IF k = 0
            THEN [pd |-> ClearFileComponents(NewProjectData, filePath), cur |-> <<>>,
                  panic |-> FALSE]
            ELSE IF run[k - 1].panic THEN run[k - 1]
            ELSE ViewTreeLine(run[k - 1].pd, filePath, lines[k], run[k - 1].cur)
    IN run[Len(lines)].pd

\* the word characters without the "$"
IsWordCharacterNoSigil == IdentChars
\* ViewTreeParser.isWordCharacter: the characters it accepts
IsWordCharacter == IdentChars \cup {"$"}

\* ViewTreeParser.GetWordRangeAtPosition with isWordCharacter: the sequence of
\* the range, empty for nil
GetWordRangeAtPosition(content, position) ==
    LET lines == SplitLines(content)
        line == lines[position.line + 1]
        character == position.character
        isWordCharacter == IsWordCharacter
        start == IF character > Len(line) THEN character
                 ELSE CHOOSE s \in 0..character :
                         /\ \A j \in (s + 1)..character : line[j] \in isWordCharacter
                         /\ s = 0 \/ line[s] \notin isWordCharacter
        end == character + RunLen(line, character + 1, isWordCharacter)
    IN IF position.line >= Len(lines) THEN <<>>
       ELSE IF line = <<>> \/ start = end THEN <<>>
       ELSE <<[start |-> [line |-> position.line, character |-> start],
               end |-> [line |-> position.line, character |-> end]]>>

\* getNodeType without the check for binding operators before the word
HoverGetNodeTypeNoOperators(content, position, wordRange) ==
    LET lines == SplitLines(content)
        line == lines[position.line + 1]
        start == wordRange.start.character
    IN IF start = 1 /\ wordRange.start.line = 0 THEN "root_class"
       ELSE IF position.line >= Len(lines) THEN "sub_prop"
       ELSE IF start > 0 /\ start - 1 < Len(line) /\ line[start] = "$" THEN "class"
       ELSE IF start = 1 THEN "prop"
       ELSE "sub_prop"
\* HoverProvider.getNodeType
HoverGetNodeType(content, position, wordRange) ==
    LET lines == SplitLines(content)
        line == lines[position.line + 1]
        start == wordRange.start.character
        \* `[>=^]\s*$` on line[:start]
        beforeWord == TrimSpace(SubSeq(line, 1, start))
        matched ==
            LET back == CHOOSE s \in 0..start :
                            /\ \A j \in (s + 1)..start : line[j] \in SpaceChars
                            /\ s = 0 \/ line[s] \notin SpaceChars
            IN back > 0 /\ line[back] \in {">", "=", "^"}
    IN IF start = 1 /\ wordRange.start.line = 0 THEN "root_class"
       ELSE IF position.line >= Len(lines) THEN "sub_prop"
       ELSE IF start > 0 /\ start - 1 < Len(line) /\ line[start] = "$" THEN "class"
       ELSE IF start = 1 THEN "prop"
       ELSE IF start > 0 /\ matched THEN "prop"
       ELSE "sub_prop"

\* DefinitionProvider.getNodeType with getTextInRange
DefinitionGetNodeType(content, position, wordRange) ==
    LET lines == SplitLines(content)
        line == lines[position.line + 1]
        start == wordRange.start.character
        end == wordRange.end.character
        rangeLine == lines[wordRange.start.line + 1]
        nodeText == IF wordRange.start.line >= Len(lines) THEN <<>>
                    ELSE IF start >= Len(rangeLine) \/ end > Len(rangeLine) THEN <<>>
                    ELSE SubSeq(rangeLine, start + 1, end)
        beforeWord == SubSeq(line, 1, start)
    IN IF position.line >= Len(lines) THEN "sub_prop"
       ELSE IF position.character = 1 /\ position.line = 0 THEN "root_class"
       ELSE IF HasPrefix(nodeText, <<"$">>) THEN "class"
       ELSE IF /\ Contains(beforeWord, <<"$">>)
               /\ HasSuffix(TrimSpace(beforeWord), <<"$">>) THEN "class"
       ELSE IF start = 1 THEN "prop"
       ELSE IF /\ start >= 2 /\ start - 2 < Len(line)
               /\ line[start - 1] \in {">", "=", "^"} THEN "prop"
       ELSE "sub_prop"

\* DefinitionProvider.getNodeType as lsp/definition-provider.go has it
DefinitionGetNodeTypeLsp(content, position, wordRange) ==
    LET lines == SplitLines(content)
        line == lines[position.line + 1]
        start == wordRange.start.character
    IN IF start = 1 /\ wordRange.start.line = 0 THEN "root_class"
       ELSE IF position.line >= Len(lines) THEN "sub_prop"
       ELSE IF start > 0 /\ start - 1 < Len(line) /\ line[start] = "$" THEN "class"
       ELSE IF start = 1 THEN "prop"
       ELSE IF /\ start >= 2 /\ start - 2 < Len(line)
               /\ line[start - 1] \in {">", "=", "^"} THEN "prop"
       ELSE "sub_prop"

\* ProjectScanner.findFiles: filepath.WalkDir calls the function first for the
\* root itself, with d.Name() the base name of the root path, and leaves out
\* all that is below a directory for which it returns SkipDir.  The set of
\* the paths found; the walk lists them in lexical order
FindFiles(workspaceRoot, tree, pattern) ==
    LET slashes == {i \in 1..Len(workspaceRoot) : workspaceRoot[i] = "/"}
        base == IF slashes = {} THEN workspaceRoot
                ELSE SubSeq(workspaceRoot,
                            1 + CHOOSE i \in slashes : \A j \in slashes : j <= i,
                            Len(workspaceRoot))
        SkipDir(name) ==
            HasPrefix(name, <<".">>)
            \/ name = <<"n","o","d","e","_","m","o","d","u","l","e","s">>
        visited(path) == /\ ~SkipDir(base)
                         /\ \A k \in 1..(Len(path) - 1) : ~SkipDir(path[k])
        name(path) == path[Len(path)]
    IN {path \in tree :
          /\ visited(path)
          /\ IF Contains(pattern, <<"*", ".", "v", "i", "e", "w", ".", "t", "r", "e", "e">>)
                /\ HasSuffix(name(path), PathViewTree)
             THEN TRUE
             ELSE /\ Contains(pattern, <<"*", ".", "t", "s">>)
                  /\ HasSuffix(name(path), PathTs)
                  /\ ~HasSuffix(name(path), <<".", "d", ".", "t", "s">>)}

\* ViewTreeParser.GetCurrentComponent
GetCurrentComponent(content, position) ==
    LET lines == SplitLines(content)
        currentLine == lines[position.line + 1]
        currentIndent == GetIndentLevel(currentLine)
        \* what the loop returns at line index i, <<>> when it goes on
        found(i) ==
            LET line == lines[i + 1]
            IN IF line = <<>> THEN <<>>
               ELSE IF /\ GetIndentLevel(line) < currentIndent
                       /\ ExtractComponentFromLine(line) # <<>>
               THEN ExtractComponentFromLine(line)
               ELSE IF /\ GetIndentLevel(line) = 0
                       /\ HasPrefix(TrimSpace(line), <<"$">>)
               THEN FirstField(TrimSpace(line))
               ELSE <<>>
        hits == {i \in 0..(position.line - 1) : found(i) # <<>>}
    IN IF position.line >= Len(lines) THEN <<>>
       ELSE IF ExtractComponentFromLine(currentLine) # <<>>
       THEN ExtractComponentFromLine(currentLine)
       ELSE IF hits = {} THEN <<>>
       ELSE found(CHOOSE i \in hits : \A j \in hits : j <= i)

\* the files a workspace may hold, each the names on its path from the root,
\* in the lexical order in which filepath.WalkDir visits them
Tree ==
    << <<<<".","h">>, <<"c",".","v","i","e","w",".","t","r","e","e">>>>,
       <<<<"a",".","v","i","e","w",".","t","r","e","e">>>>,
       <<<<"e",".","t","s">>>>,
       <<<<"f",".","d",".","t","s">>>>,
       <<<<"n","o","d","e","_","m","o","d","u","l","e","s">>, <<"d",".","v","i","e","w",".","t","r","e","e">>>>,
       <<<<"s">>, <<"b",".","v","i","e","w",".","t","r","e","e">>>> >>

FnInit ==
    /\ mutex = Unlocked
    /\ projectScanner = FALSE
    /\ providers = {}
    /\ documents = {}
    /\ main = MainIdle
    /\ scan = ScanOff
    /\ crashed = FALSE
    /\ claimOrder = NoClaims
    /\ handled = 0
    /\ \/ /\ projectData = NewProjectData
          /\ \E content \in Contents :
             \E position \in [line : 0..MaxLine, character : 0..MaxChar] :
                call = [args |-> "text", fn |-> "none", content |-> content,
                        position |-> position,
                        workspaceRoot |-> <<>>, tree |-> {}, out |-> <<>>]
       \* the index after /a.view.tree was folded in with "", "$A" or
       \* "$A\n\tq\n\tp\n\tab\n$B\n\tp\n\ta\n\tZ"
       \/ \E content \in {<<>>, <<"$","A">>,
                           <<"$","A","\n","\t","q","\n","\t","p","\n","\t","a","b","\n",
                             "$","B","\n","\t","p","\n","\t","a","\n","\t","Z">>} :
             /\ projectData = ParseViewTreeFile(content, ViewTreeFiles[1])
             /\ call = [args |-> "index", fn |-> "none", content |-> content,
                        position |-> [line |-> 0, character |-> 0],
                        workspaceRoot |-> <<>>, tree |-> {}, out |-> <<>>]
       \* the roots ".", "/w" and "/w/.p"; the files below the root, each the
       \* names on its path from the root
       \/ \E workspaceRoot \in {<<".">>, <<"/","w">>, <<"/","w","/",".","p">>} :
          \E tree \in SUBSET {Tree[k] : k \in DOMAIN Tree} :
             /\ projectData = NewProjectData
             /\ call = [args |-> "tree", fn |-> "none", content |-> <<>>,
                        position |-> [line |-> 0, character |-> 0],
                        workspaceRoot |-> workspaceRoot, tree |-> tree, out |-> <<>>]

\* strings.Index: the offset of the first p in s, -1 when there is none
Index(s, p) ==
    LET at == {i \in 1..(Len(s) - Len(p) + 1) : SubSeq(s, i, i + Len(p) - 1) = p}
    IN IF at = {} THEN -1 ELSE (CHOOSE i \in at : \A j \in at : i <= j) - 1

\* a Diagnostic of source "view.tree" on one line
Diagnostic(severity, lineIndex, from, to, message) ==
    [Severity |-> severity,
     Range |-> [start |-> [line |-> lineIndex, character |-> from],
                end |-> [line |-> lineIndex, character |-> to]],
     Message |-> message]

\* diagnostics = append(diagnostics, ...) over a loop: the results in order
RECURSIVE Concat(_)
Concat(seqs) == IF seqs = <<>> THEN <<>> ELSE Head(seqs) \o Concat(Tail(seqs))

\* the lines the validators of DiagnosticProvider skip: empty ones and comments
Skipped(line) ==
    \/ line = <<>>
    \/ TrimSpace(line) = <<>>
    \/ HasPrefix(TrimSpace(line), <<"/", "/">>)

\* DiagnosticProvider.validateSyntax
DiagnosticValidateSyntax(content) ==
    LET lines == SplitLines(content)
        at(k) ==
            LET line == lines[k]
                lineIndex == k - 1
                trimmed == TrimSpace(line)
                componentName == FirstField(trimmed)
                \* `^\$[a-zA-Z_][a-zA-Z0-9_]*$`
                matched ==
                    /\ Len(componentName) >= 2
                    /\ componentName[1] = "$"
                    /\ IsIdentStart(componentName[2])
                    /\ \A i \in 3..Len(componentName) : componentName[i] \in WordChars
                startChar == Index(line, componentName)
                \* `^(\s*)`
                leadingWhitespace == SubSeq(line, 1, RunLen(line, 1, SpaceChars))
                \* `(<=?>?)\s*([a-zA-Z_$][a-zA-Z0-9_]*)?` at the leftmost "<"
                lt == Index(trimmed, <<"<">>) + 1
                eq == IF lt + 1 <= Len(trimmed) /\ trimmed[lt + 1] = "=" THEN 1 ELSE 0
                gt == IF lt + eq + 1 <= Len(trimmed) /\ trimmed[lt + eq + 1] = ">"
                      THEN 1 ELSE 0
                operator == SubSeq(trimmed, lt, lt + eq + gt)
                after == lt + eq + gt + 1 + RunLen(trimmed, lt + eq + gt + 1, SpaceChars)
                named == /\ after <= Len(trimmed)
                         /\ (IsIdentStart(trimmed[after]) \/ trimmed[after] = "$")
                operatorIndex == Index(line, operator)
            IN (IF HasPrefix(trimmed, <<"$">>) /\ ~matched
                THEN <<Diagnostic("error", lineIndex, startChar,
                                  startChar + Len(componentName),
                                  "Invalid component name")>>
                ELSE <<>>)
               \o
               (IF Contains(leadingWhitespace, <<"\t">>)
                   /\ Contains(leadingWhitespace, <<" ">>)
                THEN <<Diagnostic("warning", lineIndex, 0, Len(leadingWhitespace),
                                  "Mixed tabs and spaces in indentation")>>
                ELSE <<>>)
               \o
               (IF Contains(trimmed, <<"<", "=">>) /\ ~named
                THEN <<Diagnostic("error", lineIndex, operatorIndex,
                                  operatorIndex + Len(operator),
                                  "Binding operator must be followed by a property name")>>
                ELSE <<>>)
    IN Concat([k \in 1..Len(lines) |-> IF Skipped(lines[k]) THEN <<>> ELSE at(k)])

\* DiagnosticProvider.validateComponents, with known the components of the
\* project index
ValidateComponents(components, known) ==
    LET others(n, name) == {j \in 1..n : components[j].Name = name}
        \* the duplicates of the component at k, all but the first of them
        dup(k) ==
            LET same == others(Len(components), components[k].Name)
                first == CHOOSE j \in same : \A i \in same : j <= i
            IN IF Cardinality(same) > 1
               THEN Concat([j \in 1..Len(components) |->
                        IF j \in same \ {first}
                        THEN <<[Severity |-> "error", Range |-> components[j].Range,
                                Message |-> "Duplicate component definition"]>>
                        ELSE <<>>])
               ELSE <<>>
        at(k) ==
            (IF components[k].Name \notin known
                /\ ~HasPrefix(components[k].Name, <<"$", "m", "o", "l", "_">>)
             THEN <<[Severity |-> "warning", Range |-> components[k].Range,
                     Message |-> "Component not found in project"]>>
             ELSE <<>>)
            \o dup(k)
    IN Concat([k \in 1..Len(components) |-> at(k)])

\* DiagnosticProvider.validateProperties
ValidateProperties(components, content) ==
    LET lines == SplitLines(content)
        \* `^[a-zA-Z_$][a-zA-Z0-9_?*]*$`
        matched(name) ==
            /\ name # <<>>
            /\ (IsIdentStart(name[1]) \/ name[1] = "$")
            /\ \A i \in 2..Len(name) : name[i] \in IdentChars
        reservedNames == {<<"c","o","n","s","t","r","u","c","t","o","r">>,
                          <<"p","r","o","t","o","t","y","p","e">>,
                          <<"_","_","p","r","o","t","o","_","_">>}
        of(properties, k) ==
            LET property == properties[k]
                same == {j \in 1..Len(properties) : properties[j].Name = property.Name}
                first == CHOOSE j \in same : \A i \in same : j <= i
                bindingIndex == Index(lines[property.Line + 1], property.Value)
            IN (IF ~matched(property.Name)
                THEN <<[Severity |-> "error", Range |-> property.Range,
                        Message |-> "Invalid property name"]>>
                ELSE <<>>)
               \o
               (IF property.Name \in reservedNames
                THEN <<[Severity |-> "error", Range |-> property.Range,
                        Message |-> "Reserved property name"]>>
                ELSE <<>>)
               \o
               (IF Cardinality(same) > 1
                THEN Concat([j \in 1..Len(properties) |->
                        IF j \in same \ {first}
                        THEN <<[Severity |-> "warning", Range |-> properties[j].Range,
                                Message |-> "Duplicate property"]>>
                        ELSE <<>>])
                ELSE <<>>)
               \o
               (IF /\ property.IsBinding /\ property.Value # <<>>
                   /\ ~matched(property.Value)
                   /\ property.Line < Len(lines)
                   /\ bindingIndex >= 0
                THEN <<Diagnostic("error", property.Line, bindingIndex,
                                  bindingIndex + Len(property.Value),
                                  "Invalid binding target")>>
                ELSE <<>>)
        at(k) == Concat([p \in 1..Len(components[k].Properties) |->
                            of(components[k].Properties, p)])
    IN Concat([k \in 1..Len(components) |-> at(k)])

\* DiagnosticProvider.validateIndentation, with DiagnosticProvider.getIndentLevel
\* (tabs and spaces count one level each)
ValidateIndentation(content) ==
    LET lines == SplitLines(content)
        getIndentLevel(line) == RunLen(line, 1, {"\t", " "})
        \* lastNonEmptyIndent when the loop reaches line k
        last(k) ==
            LET seen == {j \in 1..(k - 1) : ~Skipped(lines[j])}
            IN IF seen = {} THEN 0
               ELSE getIndentLevel(lines[CHOOSE j \in seen : \A i \in seen : i <= j])
        at(k) ==
            LET lineIndex == k - 1
                trimmed == TrimSpace(lines[k])
                currentIndent == getIndentLevel(lines[k])
            IN (IF HasPrefix(trimmed, <<"$">>) /\ currentIndent > 0
                THEN <<Diagnostic("error", lineIndex, 0, currentIndent,
                                  "Component definitions should not be indented")>>
                ELSE <<>>)
               \o
               (IF ~HasPrefix(trimmed, <<"$">>) /\ currentIndent = 0
                THEN <<Diagnostic("error", lineIndex, 0, 1,
                                  "Properties must be indented under their component")>>
                ELSE <<>>)
               \o
               (IF currentIndent > last(k) + 1
                THEN <<Diagnostic("warning", lineIndex, 0, currentIndent,
                                  "Indentation increased by more than one level")>>
                ELSE <<>>)
    IN Concat([k \in 1..Len(lines) |-> IF Skipped(lines[k]) THEN <<>> ELSE at(k)])

\* DiagnosticProvider.validateBindings
ValidateBindings(content) ==
    LET lines == SplitLines(content)
        at(k) ==
            LET line == lines[k]
                lineIndex == k - 1
                s == TrimSpace(line)
                n == Len(s)
                \* where each pattern of malformedBindings matches, and how long
                \* `[^<]=[^>]`
                assign == {i \in 1..(n - 2) :
                              s[i] # "<" /\ s[i + 1] = "=" /\ s[i + 2] # ">"}
                \* `<[^=]`
                incomplete == {i \in 1..(n - 1) : s[i] = "<" /\ s[i + 1] # "="}
                \* `>[^=]`
                invalid == {i \in 1..(n - 1) : s[i] = ">" /\ s[i + 1] # "="}
                \* `<=\s*$`
                oneWayEnd == {i \in 1..(n - 1) :
                                 /\ s[i] = "<" /\ s[i + 1] = "="
                                 /\ \A j \in (i + 2)..n : s[j] \in SpaceChars}
                \* `<=>\s*$`
                twoWayEnd == {i \in 1..(n - 2) :
                                 /\ s[i] = "<" /\ s[i + 1] = "=" /\ s[i + 2] = ">"
                                 /\ \A j \in (i + 3)..n : s[j] \in SpaceChars}
                check(where, len, message) ==
                    IF where = {} THEN <<>>
                    ELSE LET i == CHOOSE a \in where : \A b \in where : a <= b
                             match == SubSeq(s, i, IF len = 0 THEN n ELSE i + len - 1)
                             matchIndex == Index(line, match)
                         IN <<Diagnostic("error", lineIndex, matchIndex,
                                         matchIndex + Len(match), message)>>
                \* `[^<]<=\s`
                hasOneWayBinding ==
                    \E i \in 1..(n - 3) :
                        /\ s[i] # "<" /\ s[i + 1] = "<" /\ s[i + 2] = "="
                        /\ s[i + 3] \in SpaceChars
                hasTwoWayBinding == Contains(s, <<"<", "=", ">">>)
            IN check(assign, 3, "Use <= or <=> for bindings, not =")
               \o check(incomplete, 2, "Incomplete binding operator. Use <= or <=>")
               \o check(invalid, 2, "Invalid operator. Use <= or <=>")
               \o check(oneWayEnd, 0,
                        "Binding operator <= must be followed by a property name")
               \o check(twoWayEnd, 0,
                        "Binding operator <=> must be followed by a property name")
               \o (IF hasOneWayBinding /\ hasTwoWayBinding
                   THEN <<Diagnostic("error", lineIndex, 0, Len(line),
                            "Cannot use both <= and <=> operators in the same line.")>>
                   ELSE <<>>)
    IN Concat([k \in 1..Len(lines) |-> IF Skipped(lines[k]) THEN <<>> ELSE at(k)])

\* DiagnosticProvider.ProvideDiagnostics on a document of the given URI, with
\* known the components of the project index
ProvideDiagnostics(documentURI, content, known) ==
    LET \* mapSeverity of a parse error
        Mapped(parseError) ==
            [Severity |-> IF parseError.Severity \in {"error", "warning"}
                          THEN parseError.Severity ELSE "info",
             Range |-> parseError.Range,
             Message |-> parseError.Message]
    IN IF ~HasSuffix(documentURI, PathViewTree) THEN <<>>
       ELSE CHOOSE diagnostics \in
               {[k \in 1..Len(parseResult.Errors) |-> Mapped(parseResult.Errors[k])]
                \o DiagnosticValidateSyntax(content)
                \o ValidateComponents(parseResult.Components, known)
                \o ValidateProperties(parseResult.Components, content)
                \o ValidateIndentation(content)
                \o ValidateBindings(content) :
                   parseResult \in {Parse(content)}} : TRUE

\* ViewTreeParser.ValidateSyntax, with order the order in which the range
\* over the map componentNames gives the names
ValidateSyntax(content, order) ==
    LET \* `^[a-zA-Z_$][a-zA-Z0-9_?*]*$`
        isValidPropertyName(name) ==
            /\ name # <<>>
            /\ (IsIdentStart(name[1]) \/ name[1] = "$")
            /\ \A i \in 2..Len(name) : name[i] \in IdentChars
        \* components[i] for i from 1 of the components of one name
        duplicates(components, name) ==
            Concat([j \in 1..Len(components) |->
                IF /\ components[j].Name = name
                   /\ \E i \in 1..(j - 1) : components[i].Name = name
                THEN <<[Message |-> "Duplicate component name",
                        Range |-> components[j].Range, Severity |-> "warning"]>>
                ELSE <<>>])
        invalid(properties) ==
            Concat([j \in 1..Len(properties) |->
                IF ~isValidPropertyName(properties[j].Name)
                THEN <<[Message |-> "Invalid property name",
                        Range |-> properties[j].Range, Severity |-> "error"]>>
                ELSE <<>>])
    IN CHOOSE errors \in
          {parseResult.Errors
           \o Concat([n \in 1..Len(order) |->
                         duplicates(parseResult.Components, order[n])])
           \o Concat([k \in 1..Len(parseResult.Components) |->
                         invalid(parseResult.Components[k].Properties)]) :
              parseResult \in {Parse(content)}} : TRUE

\* CompletionProvider.getCompletionContext
GetCompletionContext(content, position, beforeCursor) ==
    LET Context(trimmed, indentLevel) ==
            IF HasPrefix(trimmed, <<"$">>) THEN "component_name"
            ELSE IF indentLevel = 0 /\ ~Contains(trimmed, <<" ">>) THEN "component_name"
            ELSE IF indentLevel = 0 /\ Contains(trimmed, <<" ">>) THEN "component_extends"
            ELSE IF Contains(trimmed, <<"<", "=">>) THEN "property_binding"
            ELSE IF indentLevel > 0 THEN "property_name"
            ELSE "value"
        Of(type, indentLevel) ==
            [Type |-> type, IndentLevel |-> indentLevel,
             CurrentComponent |-> IF type = "property_name"
                                  THEN GetCurrentComponent(content, position)
                                  ELSE <<>>]
        \* len(beforeCursor) - len(strings.TrimLeft(beforeCursor, " \t"))
        At(indentLevel) == Of(Context(TrimSpace(beforeCursor), indentLevel), indentLevel)
    IN At(RunLen(beforeCursor, 1, {" ", "\t"}))

\* CompletionProvider.ProvideCompletionItems on the index pd: the items, each
\* by its label and kind
ProvideCompletionItems(content, position, pd) ==
    LET Items(labels, kind) == {[Label |-> l, Kind |-> kind] : l \in labels}
        addComponentCompletions == Items(pd.Components, "Class")
        \* ProjectScanner.GetAllProperties
        allProperties == UNION {pd.ComponentProperties[c] : c \in DOMAIN pd.ComponentProperties}
        addCommonProperties ==
            Items({<<"d","o","m","_","n","a","m","e">>,
             <<"d","o","m","_","n","a","m","e","_","s","p","a","c","e">>,
             <<"a","t","t","r">>,
             <<"f","i","e","l","d">>,
             <<"v","a","l","u","e">>,
             <<"e","n","a","b","l","e","d">>,
             <<"v","i","s","i","b","l","e">>,
             <<"t","i","t","l","e">>,
             <<"h","i","n","t">>,
             <<"s","u","b">>,
             <<"e","v","e","n","t">>,
             <<"p","l","u","g","i","n","s">>}, "Property")
        addPropertyCompletions(currentComponent) ==
            Items(IF currentComponent # <<>>
                  THEN MapGet(pd.ComponentProperties, currentComponent)
                  ELSE allProperties, "Property")
            \cup Items({<<"/">>}, "Operator")
            \cup addCommonProperties
        addBindingCompletions ==
            Items({<<"<","=">>,
             <<"<","=",">">>,
             <<"^">>,
             <<"*">>}, "Operator")
        addValueCompletions ==
            Items({<<"n","u","l","l">>,
             <<"t","r","u","e">>,
             <<"f","a","l","s","e">>,
             <<"\\">>,
             <<"@","\\">>,
             <<"*">>}, "Value")
            \* addCssClassCompletions
            \cup Items({<<"m","o","l","_","t","h","e","m","e","_","a","u","t","o">>,
             <<"m","o","l","_","t","h","e","m","e","_","d","a","r","k">>,
             <<"m","o","l","_","t","h","e","m","e","_","l","i","g","h","t">>,
             <<"m","o","l","_","s","k","i","n","_","a","u","t","o">>,
             <<"m","o","l","_","s","k","i","n","_","d","a","r","k">>,
             <<"m","o","l","_","s","k","i","n","_","l","i","g","h","t">>}, "EnumMember")
            \* addEventHandlerCompletions
            \cup Items({<<"e","v","e","n","t","_","c","l","i","c","k">>,
             <<"e","v","e","n","t","_","f","o","c","u","s">>,
             <<"e","v","e","n","t","_","b","l","u","r">>,
             <<"e","v","e","n","t","_","c","h","a","n","g","e">>,
             <<"e","v","e","n","t","_","i","n","p","u","t">>,
             <<"e","v","e","n","t","_","k","e","y","d","o","w","n">>,
             <<"e","v","e","n","t","_","k","e","y","u","p">>,
             <<"e","v","e","n","t","_","m","o","u","s","e","d","o","w","n">>,
             <<"e","v","e","n","t","_","m","o","u","s","e","u","p">>,
             <<"e","v","e","n","t","_","m","o","u","s","e","o","v","e","r">>,
             <<"e","v","e","n","t","_","m","o","u","s","e","o","u","t">>}, "Event")
        Switch(completionContext) ==
            IF completionContext.Type \in {"component_name", "component_extends"}
            THEN addComponentCompletions
            ELSE IF completionContext.Type = "property_name"
            THEN addPropertyCompletions(completionContext.CurrentComponent)
            ELSE IF completionContext.Type = "property_binding"
            THEN addBindingCompletions
            ELSE IF completionContext.Type = "value"
            THEN addValueCompletions \cup addComponentCompletions
            ELSE {}
        OnLine(line) ==
            Switch(GetCompletionContext(content, position,
                       IF position.character <= Len(line)
                       THEN SubSeq(line, 1, position.character) ELSE <<>>))
    IN IF position.line >= Len(SplitLines(content)) THEN {}
       ELSE OnLine(SplitLines(content)[position.line + 1])

\* filepath.Join(root, names...): the path WalkDir hands to the function
JoinPath(workspaceRoot, path) ==
    LET joined[k \in 1..Len(path)] ==
            IF k = 1 THEN path[1] ELSE joined[k - 1] \o <<"/">> \o path[k]
    IN IF workspaceRoot = <<".">> THEN joined[Len(path)]
       ELSE workspaceRoot \o <<"/">> \o joined[Len(path)]

\* what os.ReadFile gives for a file that can be read: "$a\n\tp" for
\* a.view.tree, "$e\n\tp" for e.ts
FileText(path) == <<"$", path[Len(path)][1], "\n", "\t", "p">>

\* the files of the loop up to the first that os.ReadFile cannot read
ReadableUntilError(files, unreadable) ==
    LET failing == {k \in 1..Len(files) : files[k] \in unreadable}
    IN IF failing = {} THEN files
       ELSE SubSeq(files, 1, (CHOOSE k \in failing : \A j \in failing : k <= j) - 1)
\* the files of the loop of scanViewTreeFiles and of scanTsFiles that reach
\* the parse: for a file that os.ReadFile cannot read the error is logged and
\* the loop continues
Readable(files, unreadable) ==
    LET Read(path) == path \notin unreadable
    IN SelectSeq(files, Read)

\* the loop of parseViewTreeFile and of parseTsFile from the i-th item on,
\* where r holds the index, currentComponent and whether an iteration panicked
RECURSIVE ParseItems(_, _, _, _)
ParseItems(r, filePath, items, i) ==
    IF i > Len(items) \/ r.panic THEN r
    ELSE CHOOSE last \in {ParseItems(n, filePath, items, i + 1) :
                             n \in {FoldItem(r.pd, filePath, items[i], r.cur)}} : TRUE

\* ProjectScanner.parseViewTreeFile and parseTsFile on the index data, all of
\* it in one step; parseTsFile returns before the lock when the content holds
\* no component
ParseFile(data, filePath, content) ==
    CHOOSE r \in
       {IF IsTsPath(filePath) /\ items = <<>>
        THEN [pd |-> data, cur |-> <<>>, panic |-> FALSE]
        ELSE ParseItems([pd |-> ClearFileComponents(data, filePath),
                         cur |-> <<>>, panic |-> FALSE],
                        filePath, items, 1) :
           items \in {FoldItems(filePath, content)}} : TRUE

\* the loop of scanViewTreeFiles and of scanTsFiles over the files read, on
\* the index data.  The index after the loop and whether a parse panicked
RECURSIVE ScanFiles(_, _, _)
ScanFiles(data, workspaceRoot, files) ==
    IF files = <<>> THEN [pd |-> data, panic |-> FALSE]
    ELSE CHOOSE last \in
            {IF r.panic THEN [pd |-> r.pd, panic |-> TRUE]
             ELSE ScanFiles(r.pd, workspaceRoot, Tail(files)) :
                r \in {ParseFile(data, JoinPath(workspaceRoot, Head(files)),
                                 FileText(Head(files)))}} : TRUE

\* a scan that goes on with the index it finds
ResetProjectDataKeeps(data) == data
\* "Reset project data": ps.projectData = NewProjectData(), whatever the
\* index data held
ResetProjectData(data) == NewProjectData

\* ProjectScanner.ScanProject without another thread, on the index data and a workspace with the
\* files tree, of which os.ReadFile fails for unreadable and the directories
\* denied (each the names on its path from the root, <<>> the root itself)
\* cannot be read: WalkDir reports the error to the function of findFiles,
\* which returns nil for it, and goes on without the entries of the
\* directory; the errors of the two scans are logged.  scanViewTreeFiles and
\* then scanTsFiles run their loops on the one index.  The index it leaves
\* and what it returns ("panic" when a parse panicked and it does not return)
ScanProject(data, workspaceRoot, tree, unreadable, denied) ==
    LET Walk(found) == LET Found(path) == path \in found
                       IN SelectSeq(Tree, Found)
    IN CHOOSE done \in
          {[pd |-> result.pd, err |-> IF result.panic THEN "panic" ELSE "nil"] :
             result \in
                UNION {{ScanFiles(ResetProjectData(data), workspaceRoot,
                           Readable(Walk(FindFiles(workspaceRoot, open, <<"*","*","/","*",".","v","i","e","w",".","t","r","e","e">>)),
                                    unreadable)
                           \o Readable(Truncate(Walk(FindFiles(workspaceRoot, open,
                                                               <<"*","*","/","*",".","t","s">>)),
                                                TsScanLimit),
                                       unreadable))} :
                         open \in {{path \in tree :
                                       \A d \in denied :
                                          ~(Len(d) < Len(path)
                                            /\ SubSeq(path, 1, Len(d)) = d)}}}} :
          TRUE

\* the function fn applied to the arguments of kind args, giving out
Returns(args, fn, out) ==
    /\ call.args = args
    /\ call.fn = "none"
    /\ call' = [call EXCEPT !.fn = fn, !.out = out]
    /\ UNCHANGED <<projectData, mutex, projectScanner, providers, documents, main,
                   scan, crashed, claimOrder, handled>>

FnNext ==
    \/ Returns("text", "GetCurrentComponent",
               GetCurrentComponent(call.content, call.position))
    \* scanViewTreeFiles and scanTsFiles
    \/ \E pattern \in {<<"*", "*", "/", "*", ".", "v", "i", "e", "w", ".", "t", "r", "e", "e">>,
                       <<"*", "*", "/", "*", ".", "t", "s">>} :
          Returns("tree", "findFiles",
                  [pattern |-> pattern,
                   files |-> FindFiles(call.workspaceRoot, call.tree, pattern)])
    \* initializeProviders: the scan of a workspace where the files unreadable
    \* and the directories denied cannot be read
    \* and the index is empty or that of an update of /a.view.tree before it
    \/ \E unreadable \in SUBSET call.tree, denied \in SUBSET {<<>>, <<<<"s">>>>},
          data \in {NewProjectData,
                    ParseViewTreeFile(<<"$","A","\n","\t","p">>, ViewTreeFiles[1])} :
          Returns("tree", "ScanProject",
                  [unreadable |-> unreadable, denied |-> denied, index |-> data,
                   result |-> ScanProject(data, call.workspaceRoot, call.tree,
                                          unreadable, denied)])
    \* the queries of the index for a component
    \/ \E component \in Comps \cup {<<"$","Z">>} :
          Returns("index", "queries",
                  [component |-> component,
                   properties |-> GetPropertiesForComponent(component),
                   allProperties |-> GetAllProperties,
                   has |-> HasComponent(component),
                   file |-> GetComponentFile(component)])
    \/ Returns("text", "Parse", Parse(call.content))
    \* handleCompletion, on an empty index or on the index of one scanned file
    \/ \E pd \in {NewProjectData, ParseViewTreeFile(<<"$","A","\n","\t","p">>, ViewTreeFiles[1])} :
          Returns("text", "ProvideCompletionItems",
                  [index |-> pd,
                   items |-> ProvideCompletionItems(call.content, call.position, pd)])
    \/ \E documentURI \in {UriOf(ViewTreeFiles[1]), UriOf(TsFiles[1])}, known \in {{}, Comps} :
          Returns("text", "ProvideDiagnostics",
                  [documentURI |-> documentURI,
                   diagnostics |-> ProvideDiagnostics(documentURI, call.content, known)])
    \/ Returns("text", "GetWordRangeAtPosition",
               GetWordRangeAtPosition(call.content, call.position))
    \* ProvideHover and ProvideDefinition: getNodeType on the word at the position
    \/ \E wordRange \in {GetWordRangeAtPosition(call.content, call.position)} :
          /\ wordRange # <<>>
          /\ Returns("text", "getNodeType",
                [wordRange |-> wordRange[1],
                 hover |-> HoverGetNodeType(call.content, call.position, wordRange[1]),
                 definition |->
                     DefinitionGetNodeType(call.content, call.position, wordRange[1]),
                 definitionLsp |->
                     DefinitionGetNodeTypeLsp(call.content, call.position, wordRange[1])])
    \/ Returns("text", "parseViewTreeFile", ParseViewTreeFile(call.content, ViewTreeFiles[1]))
    \* handleDidChange: one change of the document, from the position to end
    \/ \E end \in [line : 0..MaxLine, character : 0..MaxChar],
          newText \in {<<>>, <<"x">>, <<"$">>} :
          Returns("text", "applyTextChange",
                  [end |-> end, newText |-> newText,
                   text |-> ApplyTextChange(call.content,
                                            [start |-> call.position, end |-> end],
                                            newText)])

FnSpec == FnInit /\ [][FnNext]_vars

----------------------------------------------------------------------------
(* The text functions of the handlers *)

\* C11: for an edit range whose start or end lies beyond the document,
\* positionToOffset gives offsets no greater than the length of the text and
\* applyTextChange returns without a slice out of bounds
C11_EditBeyondDocumentIsSafe ==
    LET lines == SplitLines(call.content)
        Beyond(pos) == \/ pos.line >= Len(lines)
                       \/ pos.character > Len(lines[pos.line + 1])
    IN (call.fn = "applyTextChange" /\ (Beyond(call.position) \/ Beyond(call.out.end)))
       => /\ call.out.text.startOffset <= Len(call.content)
          /\ call.out.text.endOffset <= Len(call.content)
          /\ ~call.out.text.panic

----------------------------------------------------------------------------
(* The structural parser *)

\* C12: every non-blank, non-comment indented line before the first root
\* declaration gets exactly one error of severity "error" that spans the
\* whole line, and no component
C12_OrphanLineIsOneError ==
    call.fn = "Parse" =>
        LET lines == SplitLines(call.content)
            decl(k) == lines[k] # <<>> /\ lines[k][1] = "$"
            orphan(k) ==
                /\ \A j \in 1..k : ~decl(j)
                /\ lines[k] # <<>> /\ lines[k][1] \in SpaceChars
                /\ TrimSpace(lines[k]) # <<>>
                /\ ~HasPrefix(TrimSpace(lines[k]), <<"/", "/">>)
            errors == call.out.Errors
        IN \A k \in 1..Len(lines) : orphan(k) =>
              /\ Cardinality({e \in 1..Len(errors) :
                                errors[e].Range.start.line = k - 1}) = 1
              /\ \A e \in 1..Len(errors) :
                    errors[e].Range.start.line = k - 1 =>
                        /\ errors[e].Severity = "error"
                        /\ errors[e].Range.start.character = 0
                        /\ errors[e].Range.end = [line |-> k - 1,
                                                  character |-> Len(lines[k])]
              /\ \A c \in 1..Len(call.out.Components) :
                    call.out.Components[c].StartLine # k - 1

\* C13: a property line indented only with spaces under an open component is
\* recorded as a property of that component, with indentLevel the number of
\* its leading whitespace characters
C13_SpacesCountAsIndent ==
    call.fn = "Parse" =>
        LET lines == SplitLines(call.content)
            spaces(k) == RunLen(lines[k], 1, {" "})
            property(k) ==
                /\ k > 1 /\ lines[1] # <<>> /\ lines[1][1] = "$"
                /\ spaces(k) > 0 /\ spaces(k) < Len(lines[k])
                /\ IsIdentStart(lines[k][spaces(k) + 1])
        IN \A k \in 1..Len(lines) : property(k) =>
              \E c \in 1..Len(call.out.Components) :
                 \E p \in 1..Len(call.out.Components[c].Properties) :
                    LET prop == call.out.Components[c].Properties[p]
                    IN prop.Line = k - 1 /\ prop.IndentLevel = spaces(k)

\* C14: every node of type prop, sub_prop or comp has a property of the same
\* name and range in some component of Components, and every node of type
\* root_class or class a component of that name and range
C14_NodesIndexComponents ==
    call.fn = "Parse" =>
        LET components == call.out.Components
            nodes == call.out.Nodes
        IN \A n \in 1..Len(nodes) :
              IF nodes[n].Type \in {"root_class", "class"}
              THEN \E c \in 1..Len(components) :
                      /\ components[c].Name = nodes[n].Name
                      /\ components[c].Range = nodes[n].Range
              ELSE \E c \in 1..Len(components) :
                   \E p \in 1..Len(components[c].Properties) :
                      /\ components[c].Properties[p].Name = nodes[n].Name
                      /\ components[c].Properties[p].Range = nodes[n].Range

\* C15: the components the scanner records for a .view.tree file are the
\* names of the components Parse returns for the same text, and every
\* property Parse records under a root component is a property the scanner
\* holds for it
C15_ScannerAgreesWithParse ==
    call.fn = "parseViewTreeFile" =>
        LET components == Parse(call.content).Components
        IN /\ MapGet(call.out.FileComponents, ViewTreeFiles[1])
              = {components[c].Name : c \in 1..Len(components)}
           /\ \A c \in 1..Len(components) :
              \A p \in 1..Len(components[c].Properties) :
                 components[c].Properties[p].Name
                    \in MapGet(call.out.ComponentProperties, components[c].Name)

----------------------------------------------------------------------------
(* The providers *)

\* C16: on every text, position and word range the hover provider's
\* getNodeType and the definition provider's getNodeType give the same kind
C16_NodeTypeSameAcrossProviders ==
    call.fn = "getNodeType" =>
        /\ call.out.hover = call.out.definition
        /\ call.out.hover = call.out.definitionLsp

\* C17: GetWordRangeAtPosition returns no range when the character at the
\* position is not an identifier character, when the line index is out of
\* range and when the expansion is empty
C17_NoRangeOffIdentifier ==
    call.fn = "GetWordRangeAtPosition" =>
        LET lines == SplitLines(call.content)
            line == lines[call.position.line + 1]
            offIdentifier ==
                \/ call.position.line >= Len(lines)
                \/ /\ call.position.character < Len(line)
                   /\ line[call.position.character + 1] \notin IdentChars \cup {"$"}
        IN offIdentifier => call.out = <<>>

----------------------------------------------------------------------------
(* The directory walk *)

\* C18: for every workspace root, the default "." included, the scan finds
\* every .view.tree file under the root but those inside a directory below
\* the root whose name starts with "." or is node_modules
C18_WalkFindsAllViewTreeFiles ==
    (call.fn = "findFiles" /\ HasSuffix(call.out.pattern, PathViewTree)) =>
        call.out.files =
            {path \in call.tree :
                /\ HasSuffix(path[Len(path)], PathViewTree)
                /\ \A k \in 1..(Len(path) - 1) :
                      /\ path[k][1] # "."
                      /\ path[k] # <<"n","o","d","e","_","m","o","d","u","l","e","s">>}

\* C19: GetCurrentComponent returns the component of the line itself if it
\* carries one, otherwise the first component found on the chain of ancestor
\* lines, each the nearest line above with a smaller indentation than the
\* one before; a component of a line that is no ancestor is never returned
C19_CurrentComponentIsEnclosing ==
    (call.fn = "GetCurrentComponent" /\ call.position.line < Len(SplitLines(call.content)))
    => LET lines == SplitLines(call.content)
           indent(k) == RunLen(lines[k + 1], 1, {"\t", " "})
           component(k) ==
               IF ExtractComponentFromLine(lines[k + 1]) # <<>>
               THEN ExtractComponentFromLine(lines[k + 1])
               ELSE IF indent(k) = 0 /\ HasPrefix(TrimSpace(lines[k + 1]), <<"$">>)
               THEN FirstField(TrimSpace(lines[k + 1]))
               ELSE <<>>
           \* from line k up, below the indentation b
           enclosing[k \in -1..Len(lines), b \in 0..Len(call.content)] ==
               IF k < 0 THEN <<>>
               ELSE IF TrimSpace(lines[k + 1]) # <<>> /\ indent(k) < b
               THEN (IF component(k) # <<>> THEN component(k)
                     ELSE enclosing[k - 1, indent(k)])
               ELSE enclosing[k - 1, b]
       IN call.out =
             IF component(call.position.line) # <<>>
             THEN component(call.position.line)
             ELSE enclosing[call.position.line - 1, indent(call.position.line)]

\* C20: for every document made of a well-formed root component line followed
\* by tab-indented property lines in the documented forms (name value,
\* name <= source, name <=> target, name ^ value), ProvideDiagnostics of the
\* .view.tree document returns no diagnostic of error severity
C20_ValidContentHasNoError ==
    LET lines == SplitLines(call.content)
        \* an identifier from position i to position j of s
        word(s, i, j) ==
            /\ i <= j /\ j <= Len(s)
            /\ IsIdentStart(s[i])
            /\ \A c \in (i + 1)..j : s[c] \in WordChars
        \* a value: letters, digits and underscores
        value(s, i) == i <= Len(s) /\ \A c \in i..Len(s) : s[c] \in WordChars
        component(s, i, j) == i < j /\ s[i] = "$" /\ word(s, i + 1, j)
        root(s) ==
            \/ component(s, 1, Len(s))
            \/ \E sp \in 1..Len(s) :
                  /\ s[sp] = " " /\ component(s, 1, sp - 1)
                  /\ component(s, sp + 1, Len(s))
        property(s) ==
            /\ s # <<>> /\ s[1] = "\t"
            /\ \E sp \in 3..Len(s) :
                  /\ s[sp] = " " /\ word(s, 2, sp - 1)
                  /\ LET rest == SubSeq(s, sp + 1, Len(s))
                     IN \/ value(rest, 1)
                        \/ HasPrefix(rest, <<"<", "=", " ">>) /\ word(rest, 4, Len(rest))
                        \/ HasPrefix(rest, <<"<", "=", ">", " ">>)
                              /\ word(rest, 5, Len(rest))
                        \/ HasPrefix(rest, <<"^", " ">>) /\ value(rest, 3)
        valid == /\ root(lines[1])
                 /\ \A k \in 2..Len(lines) : property(lines[k])
    IN (/\ call.fn = "ProvideDiagnostics"
        /\ IsViewTreePath(call.out.documentURI)
        /\ valid)
       => \A k \in 1..Len(call.out.diagnostics) :
             call.out.diagnostics[k].Severity # "error"

----------------------------------------------------------------------------
(* Diagnostics of the message loop *)

\* C21: every didOpen and didChange of a document whose URI ends in
\* .view.tree leads to a publishDiagnostics notification for it, however the
\* notification is ordered relative to the initialisation of the providers:
\* validateTextDocument of such a document never returns without publishing
C21_ViewTreeDocumentIsPublished ==
    [][(main.pc = "validate" /\ HasSuffix(UriOf(main.file), PathViewTree))
          => main'.pc \in {"validate", "q_lock", "publish"}]_vars

\* C22: completion offers the special values: on the index of the call there
\* is a cursor context, a position in some text, for which
\* ProvideCompletionItems returns items labelled null, true and false
C22_SpecialValuesAreOffered ==
    call.fn = "ProvideCompletionItems"
    => \E content \in Contents, position \in [line : 0..MaxLine, character : 0..MaxChar] :
          {<<"n","u","l","l">>, <<"t","r","u","e">>, <<"f","a","l","s","e">>}
             \subseteq {item.Label : item \in ProvideCompletionItems(content, position,
                                                                      call.out.index)}

----------------------------------------------------------------------------
(* The result of the structural parser *)

\* C23: in the components of a parse result, in parse order, each component
\* ends on the line just before the declaration line of the next one, every
\* component has StartLine <= EndLine, and the last component ends on the
\* last line index of the document
C23_ComponentsPartitionLines ==
    call.fn = "Parse"
    => LET components == call.out.Components
           n == Len(components)
       IN /\ \A k \in 1..n : components[k].StartLine <= components[k].EndLine
          /\ \A k \in 1..(n - 1) :
                /\ components[k].EndLine < components[k + 1].StartLine
                /\ components[k].EndLine = components[k + 1].StartLine - 1
          /\ n > 0 => components[n].EndLine = Len(SplitLines(call.content)) - 1

\* "$A\n\tp\n$B" is parsed: $A ends on line 1 and $B starts on line 2
C23_TwoComponentsParsed ==
    /\ call.fn = "Parse"
    /\ Len(call.out.Components) = 2
    /\ call.out.Components[1].StartLine = 0
    /\ call.out.Components[1].EndLine = 1
    /\ call.out.Components[2].StartLine = 2

\* C24: for every component and every property of a parse result, the text
\* of the recorded line between range.start.character and
\* range.end.character is the recorded name
C24_RangeHoldsName ==
    call.fn = "Parse"
    => LET lines == SplitLines(call.content)
           Holds(line, range, name) ==
               /\ range.start.line = line
               /\ range.end.line = line
               /\ range.end.character <= Len(lines[line + 1])
               /\ SubSeq(lines[line + 1], range.start.character + 1,
                         range.end.character) = name
       IN \A k \in 1..Len(call.out.Components) :
             LET component == call.out.Components[k]
             IN /\ Holds(component.StartLine, component.Range, component.Name)
                /\ \A p \in 1..Len(component.Properties) :
                      Holds(component.Properties[p].Line,
                            component.Properties[p].Range,
                            component.Properties[p].Name)

\* a component with a property has been parsed
C24_PropertyParsed ==
    /\ call.fn = "Parse"
    /\ \E k \in 1..Len(call.out.Components) :
          \E p \in 1..Len(call.out.Components[k].Properties) :
             call.out.Components[k].Properties[p].Range.start.character > 0

----------------------------------------------------------------------------
(* One ViewTreeParser instance, called again and again.  call.lines is the  *)
(* field vtp.lines, call.text the text whose parse results are compared,    *)
(* call.first the result of its first Parse.                                *)

\* the calls of a run
MaxCalls == 3

\* NewViewTreeParser: the field lines is nil
ParserInit ==
    /\ projectData = NewProjectData
    /\ mutex = Unlocked
    /\ projectScanner = FALSE
    /\ providers = {}
    /\ documents = {}
    /\ main = MainIdle
    /\ scan = ScanOff
    /\ crashed = FALSE
    /\ claimOrder = NoClaims
    /\ handled = 0
    /\ \E text \in Contents :
          call = [args |-> "parser", fn |-> "none", lines |-> <<>>, calls |-> 0,
                  text |-> text, first |-> <<>>, between |-> FALSE,
                  content |-> <<>>, out |-> <<>>]

\* a method of the parser called with content: it assigns vtp.lines and
\* returns out
Called(fn, content, lines, out) ==
    /\ call.args = "parser"
    /\ call' = [call EXCEPT
                  !.fn = fn, !.lines = lines, !.calls = @ + 1,
                  !.content = content, !.out = out,
                  !.first = IF fn = "Parse" /\ content = call.text /\ @ = <<>>
                            THEN <<out>> ELSE @,
                  !.between = @ \/ (call.first # <<>> /\ content # call.text)]
    /\ UNCHANGED <<projectData, mutex, projectScanner, providers, documents, main,
                   scan, crashed, claimOrder, handled>>

\* ViewTreeParser.Parse on the instance
ParserParse ==
    \E content \in Contents :
       /\ call.calls < MaxCalls
       /\ \E lines \in {SetLines(call.lines, content)} :
             Called("Parse", content, lines, ParseLines(lines))

\* ViewTreeParser.GetWordRangeAtPosition on the instance
ParserGetWordRangeAtPosition ==
    \E content \in Contents, position \in [line : 0..1, character : 0..1] :
       /\ call.calls < MaxCalls
       /\ Called("GetWordRangeAtPosition", content, SetLines(call.lines, content),
                 GetWordRangeAtPosition(content, position))

\* ViewTreeParser.GetCurrentComponent on the instance
ParserGetCurrentComponent ==
    \E content \in Contents, position \in [line : 0..1, character : 0..1] :
       /\ call.calls < MaxCalls
       /\ Called("GetCurrentComponent", content, SetLines(call.lines, content),
                 GetCurrentComponent(content, position))

ParserNext ==
    \/ ParserParse
    \/ ParserGetWordRangeAtPosition
    \/ ParserGetCurrentComponent

ParserSpec == ParserInit /\ [][ParserNext]_vars

\* C25: Parse of the same text on the same parser instance gives the same
\* result (components, ranges, nodes, errors) again, whatever calls of Parse,
\* GetWordRangeAtPosition and GetCurrentComponent on other texts came between
C25_ParseAgainIsEqual ==
    (call.fn = "Parse" /\ call.content = call.text /\ call.first # <<>>)
    => call.out = call.first[1]

\* the text is parsed a second time after a call on another text
C25_ParsedAgainAfterOtherText ==
    /\ call.fn = "Parse"
    /\ call.content = call.text
    /\ call.first # <<>>
    /\ call.between
    /\ call.calls = MaxCalls
    /\ call.out.Components # <<>>

\* C26: for a property line under an open component, the binding kind is
\* two-way if the trimmed line contains "<=>", otherwise one-way if it
\* contains "<=", otherwise override if it contains "^", otherwise none; for
\* a line of the form name <=> target the value is target, and for a line of
\* the form name <= source it is source
C26_BindingKindAndValue ==
    call.fn = "Parse"
    => LET lines == SplitLines(call.content)
           word(s) == /\ s # <<>> /\ IsIdentStart(s[1])
                      /\ \A i \in 2..Len(s) : s[i] \in WordChars
           \* s is name, an operator between spaces, and a word: the word
           Operand(s, op) ==
               {SubSeq(s, i + Len(op), Len(s)) : i \in
                   {i \in 2..(Len(s) - Len(op)) :
                       /\ SubSeq(s, i, i + Len(op) - 1) = op
                       /\ word(SubSeq(s, 1, i - 1))
                       /\ word(SubSeq(s, i + Len(op), Len(s)))}}
           Kind(s) == IF Contains(s, <<"<", "=", ">">>) THEN "two-way"
                      ELSE IF Contains(s, <<"<", "=">>) THEN "one-way"
                      ELSE IF Contains(s, <<"^">>) THEN "override"
                      ELSE ""
       IN \A k \in 1..Len(call.out.Components) :
             \A p \in 1..Len(call.out.Components[k].Properties) :
                LET property == call.out.Components[k].Properties[p]
                    trimmed == TrimSpace(lines[property.Line + 1])
                IN /\ property.BindingType = Kind(trimmed)
                   /\ \A target \in Operand(trimmed, <<" ", "<", "=", ">", " ">>) :
                         property.Value = target
                   /\ \A source \in Operand(trimmed, <<" ", "<", "=", " ">>) :
                         property.Value = source

\* "$A\n\td <=> e" is parsed: the property d is two-way with the value e
C26_TwoWayParsed ==
    /\ call.fn = "Parse"
    /\ \E k \in 1..Len(call.out.Components) :
          \E p \in 1..Len(call.out.Components[k].Properties) :
             /\ call.out.Components[k].Properties[p].BindingType = "two-way"
             /\ call.out.Components[k].Properties[p].Value = <<"e">>

----------------------------------------------------------------------------
(* The providers on a word *)

\* C27: the hover provider's getNodeType gives the kind of the first rule
\* that matches: (1) the word starts at line 0, character 1: root_class;
\* (2) the character just before the word on its line is "$": class; (3) the
\* word starts at character 1: prop; (4) the text before the word, without
\* its trailing whitespace, ends in ">", "=" or "^": prop; (5) sub_prop
C27_HoverNodeTypeByRules ==
    call.fn = "getNodeType"
    => LET start == call.out.wordRange.start
           line == SplitLines(call.content)[start.line + 1]
           before == SubSeq(line, 1, start.character)
           \* before without its trailing whitespace
           ends == {k \in 0..Len(before) :
                       /\ \A j \in (k + 1)..Len(before) : before[j] \in SpaceChars
                       /\ k > 0 => before[k] \notin SpaceChars}
           kind == IF start = [line |-> 0, character |-> 1] THEN "root_class"
                   ELSE IF before # <<>> /\ before[Len(before)] = "$" THEN "class"
                   ELSE IF start.character = 1 THEN "prop"
                   ELSE IF \E k \in ends : k > 0 /\ before[k] \in {">", "=", "^"}
                   THEN "prop"
                   ELSE "sub_prop"
       IN call.out.hover = kind

\* the kind of a word after a binding operator, as in "\tb <= c", is asked for
C27_WordAfterOperator ==
    /\ call.fn = "getNodeType"
    /\ call.out.wordRange.start.character > 1
    /\ call.out.hover = "prop"

----------------------------------------------------------------------------
(* Edits of a document *)

\* C28: for a range in the bounds of the text with start <= end,
\* applyTextChange gives text[0 : off(start)] + newText + text[off(end) :],
\* off(p) being the sum of length + 1 over the lines before p.line plus
\* p.character: the text before start and from end on is unchanged, and
\* replacing a range with the text it holds gives the text unchanged
C28_ChangeReplacesRange ==
    LET text == call.content
        lines == SplitLines(text)
        InBounds(p) == /\ p.line < Len(lines)
                       /\ p.character <= Len(lines[p.line + 1])
        before[k \in 0..Len(lines)] ==
            IF k = 0 THEN 0 ELSE before[k - 1] + Len(lines[k]) + 1
        off(p) == before[p.line] + p.character
        start == call.position
        end == call.out.end
        result == call.out.text.text
    IN (/\ call.fn = "applyTextChange"
        /\ InBounds(start) /\ InBounds(end)
        /\ \/ start.line < end.line
           \/ start.line = end.line /\ start.character <= end.character)
       => /\ ~call.out.text.panic
          /\ result = SubSeq(text, 1, off(start)) \o call.out.newText
                      \o SubSeq(text, off(end) + 1, Len(text))
          /\ SubSeq(result, 1, off(start)) = SubSeq(text, 1, off(start))
          /\ SubSeq(result, Len(result) - (Len(text) - off(end)) + 1, Len(result))
                = SubSeq(text, off(end) + 1, Len(text))
          /\ call.out.newText = SubSeq(text, off(start) + 1, off(end))
                => result = text

\* a range over a line break is replaced
C28_RangeOverLinesReplaced ==
    /\ call.fn = "applyTextChange"
    /\ call.position.line < call.out.end.line
    /\ call.out.end.line < Len(SplitLines(call.content))
    /\ call.out.end.character = 1
    /\ call.position.character = 1
    /\ call.out.newText = <<"x">>
    /\ ~call.out.text.panic
    /\ Len(call.out.text.text) < Len(call.content)

\* C29: a range GetWordRangeAtPosition returns for a position lies on the
\* line of the position, has start <= position.character <= end, covers
\* identifier characters only and is maximal: the character before start and
\* the character at end, when they exist, are no identifier characters; so a
\* position inside a name with "$" gives the whole name with the "$"
C29_WordRangeIsMaximalWord ==
    (call.fn = "GetWordRangeAtPosition" /\ call.out # <<>>)
    => LET range == call.out[1]
           line == SplitLines(call.content)[call.position.line + 1]
           identifier == Lower \cup Upper \cup Digit \cup {"_", "$", "?", "*"}
       IN /\ range.start.line = call.position.line
          /\ range.end.line = call.position.line
          /\ range.start.character <= call.position.character
          /\ call.position.character <= range.end.character
          /\ range.end.character <= Len(line)
          /\ \A j \in (range.start.character + 1)..range.end.character :
                line[j] \in identifier
          /\ range.start.character > 0 => line[range.start.character] \notin identifier
          /\ range.end.character < Len(line)
                => line[range.end.character + 1] \notin identifier

\* the word at a position inside "$A" is asked for and is the whole "$A"
C29_InsideSigilName ==
    /\ call.fn = "GetWordRangeAtPosition"
    /\ call.content = <<"$", "A">>
    /\ call.position = [line |-> 0, character |-> 1]
    /\ call.out = <<[start |-> [line |-> 0, character |-> 0],
                     end |-> [line |-> 0, character |-> 2]]>>

\* C30: after ScanProject on a workspace where reading some files and some
\* directories fails, it has returned nil; every file that findFiles matches
\* in the workspace and that failed, or lies below a directory that failed,
\* has no entry in FileComponents and its component is not in the index;
\* every other matching file is folded in: its component is in Components,
\* attributed to the file in ComponentFiles and FileComponents, and the
\* property of a .view.tree file is in ComponentProperties
C30_FailuresAreSkipped ==
    call.fn = "ScanProject"
    => LET pd == call.out.result.pd
           matching ==
               FindFiles(call.workspaceRoot, call.tree, <<"*","*","/","*",".","v","i","e","w",".","t","r","e","e">>)
               \cup FindFiles(call.workspaceRoot, call.tree, <<"*","*","/","*",".","t","s">>)
           failed(path) ==
               \/ path \in call.out.unreadable
               \/ \E d \in call.out.denied :
                      Len(d) < Len(path) /\ SubSeq(path, 1, Len(d)) = d
           component(path) == <<"$", path[Len(path)][1]>>
           filePath(path) == JoinPath(call.workspaceRoot, path)
       IN /\ call.out.result.err = "nil"
          /\ \A path \in matching :
                IF failed(path)
                THEN /\ filePath(path) \notin DOMAIN pd.FileComponents
                     /\ component(path) \notin pd.Components
                     /\ component(path) \notin DOMAIN pd.ComponentFiles
                ELSE /\ component(path) \in pd.Components
                     /\ filePath(path) \in DOMAIN pd.FileComponents
                     /\ pd.FileComponents[filePath(path)] = {component(path)}
                     /\ component(path) \in DOMAIN pd.ComponentFiles
                     /\ pd.ComponentFiles[component(path)] = filePath(path)
                     /\ IsViewTreePath(filePath(path))
                           => /\ component(path) \in DOMAIN pd.ComponentProperties
                              /\ <<"p">> \in pd.ComponentProperties[component(path)]

\* the scan of /w where a.view.tree cannot be read and the directory s, which
\* holds b.view.tree, cannot be listed: e.ts alone is folded in
C30_ScannedPastFailures ==
    /\ call.fn = "ScanProject"
    /\ call.workspaceRoot = <<"/", "w">>
    /\ call.tree = {Tree[2], Tree[3], Tree[6]}
    /\ call.out.unreadable = {Tree[2]}
    /\ call.out.denied = {<<<<"s">>>>}
    /\ call.out.result.err = "nil"
    /\ call.out.result.pd.Components = {<<"$", "e">>}
    /\ DOMAIN call.out.result.pd.FileComponents = {<<"/","w","/","e",".","t","s">>}

\* C31: after ScanProject, run without another thread on an index that may
\* hold entries of an earlier update, the index holds the contributions of
\* the files the scan read and nothing else: Components, the keys of
\* ComponentFiles and of ComponentProperties and the keys of FileComponents
\* are those of the files read, so an entry of the earlier index that no
\* scanned file gives again is absent
C31_RescanResetsIndex ==
    call.fn = "ScanProject"
    => LET pd == call.out.result.pd
           read ==
               {path \in FindFiles(call.workspaceRoot, call.tree, <<"*","*","/","*",".","v","i","e","w",".","t","r","e","e">>)
                          \cup FindFiles(call.workspaceRoot, call.tree, <<"*","*","/","*",".","t","s">>) :
                   /\ path \notin call.out.unreadable
                   /\ \A d \in call.out.denied :
                         ~(Len(d) < Len(path) /\ SubSeq(path, 1, Len(d)) = d)}
           component(path) == <<"$", path[Len(path)][1]>>
           filePath(path) == JoinPath(call.workspaceRoot, path)
       IN /\ pd.Components = {component(path) : path \in read}
          /\ DOMAIN pd.ComponentFiles = {component(path) : path \in read}
          /\ DOMAIN pd.FileComponents = {filePath(path) : path \in read}
          /\ DOMAIN pd.ComponentProperties
                = {component(path) : path \in {p \in read : IsViewTreePath(filePath(p))}}
          /\ \A c \in DOMAIN pd.ComponentProperties : pd.ComponentProperties[c] = {<<"p">>}

\* the scan of /w, which holds a.view.tree, on an index that held $A of
\* /a.view.tree with its property: $a of /w/a.view.tree is all it leaves
C31_RescannedOverOldIndex ==
    /\ call.fn = "ScanProject"
    /\ call.workspaceRoot = <<"/", "w">>
    /\ call.tree = {Tree[2]}
    /\ call.out.unreadable = {}
    /\ call.out.denied = {}
    /\ call.out.index.Components = {<<"$", "A">>}
    /\ call.out.result.pd.Components = {<<"$", "a">>}

\* C32: on every index, GetPropertiesForComponent(c) lists the property
\* names recorded for c, each once and in ascending order, and is empty for
\* an unknown c; GetAllProperties lists the union of the names over all
\* components, each once and in ascending order; HasComponent is false and
\* GetComponentFile is empty for a name that is not in Components.  The
\* queries only read: the index is the same after them
C32_QueriesAreSortedSets ==
    call.fn = "queries"
    => LET out == call.out
           Ascending(list) ==
               \A i \in 1..(Len(list) - 1) : StringLess(list[i], list[i + 1])
           Elements(list) == {list[i] : i \in DOMAIN list}
       IN /\ Ascending(out.properties)
          /\ Elements(out.properties)
                = MapGet(projectData.ComponentProperties, out.component)
          /\ Ascending(out.allProperties)
          /\ Elements(out.allProperties)
                = UNION {projectData.ComponentProperties[c] :
                            c \in DOMAIN projectData.ComponentProperties}
          /\ out.component \notin projectData.Components
                => /\ ~out.has
                   /\ out.file = <<>>
                   /\ out.properties = <<>>

\* the queries for $B on the index of the file with two components: p, a
\* and Z of $B come as Z, a, p and all the names as Z, a, ab, p, q
C32_QueriedTwoComponents ==
    /\ call.fn = "queries"
    /\ call.out.component = <<"$", "B">>
    /\ call.out.properties = << <<"Z">>, <<"a">>, <<"p">> >>
    /\ call.out.allProperties = << <<"Z">>, <<"a">>, <<"a", "b">>, <<"p">>, <<"q">> >>
    /\ call.out.has
    /\ call.out.file = ViewTreeFiles[1]

\* C33: when handleDidOpen or handleDidChange, received after "initialized",
\* has stored the text of the notification and comes to validate the
\* document, the index has been updated from that text: the components the
\* text gives for the file are in the index
C33_NotificationUpdatesIndex ==
    (scan.pc # "off" /\ main.pc = "validate" /\ main.req = "none")
    => ItemComponents(main.file, main.items) \subseteq projectData.Components

\* C39: in every state of the index of a running server, a component that
\* ComponentFiles attributes to a file is in FileComponents of that file; every name in
\* FileComponents and every key of ComponentFiles and of ComponentProperties
\* is in Components; and every component a .view.tree file holds in
\* FileComponents has an entry in ComponentProperties
C39_IndexMapsAgree ==
    ~crashed =>
    LET pd == projectData
    IN /\ \A c \in DOMAIN pd.ComponentFiles :
             /\ pd.ComponentFiles[c] \in DOMAIN pd.FileComponents
             /\ c \in pd.FileComponents[pd.ComponentFiles[c]]
       /\ \A f \in DOMAIN pd.FileComponents : pd.FileComponents[f] \subseteq pd.Components
       /\ DOMAIN pd.ComponentFiles \subseteq pd.Components
       /\ DOMAIN pd.ComponentProperties \subseteq pd.Components
       /\ \A f \in DOMAIN pd.FileComponents :
             IsViewTreePath(f) => pd.FileComponents[f] \subseteq DOMAIN pd.ComponentProperties

\* the scan has folded in /a.view.tree with $A, /b.view.tree with $B and its
\* property, and /c.ts, which refers to $A
C39_ThreeFilesFolded ==
    /\ ~crashed
    /\ scan.pc = "done"
    /\ projectData.Components = Comps
    /\ DOMAIN projectData.FileComponents = Files
    /\ projectData.FileComponents[TsFiles[1]] = {<<"$", "A">>}
    /\ projectData.ComponentFiles[<<"$", "A">>] = ViewTreeFiles[1]
    /\ projectData.ComponentProperties[<<"$", "B">>] = {<<"p">>}

----------------------------------------------------------------------------
(* The index under a sequence of calls of one thread: UpdateSingleFile on the
   files of the workspace and ScanProject on the workspace /w *)

\* the calls of a run
MaxUpdates == 3

\* ProjectScanner.UpdateSingleFile on the index data: the index it leaves
UpdateSingleFile(data, filePath, content) ==
    IF HasSuffix(filePath, PathViewTree) \/ HasSuffix(filePath, PathTs)
    THEN ParseFile(data, filePath, content).pd
    ELSE data

IndexInit ==
    /\ projectData = NewProjectData
    /\ mutex = Unlocked
    /\ projectScanner = TRUE
    /\ providers = {}
    /\ documents = {}
    /\ main = MainIdle
    /\ scan = ScanOff
    /\ crashed = FALSE
    /\ claimOrder = NoClaims
    /\ handled = 0
    /\ call = [args |-> "index", fn |-> "none", calls |-> 0, out |-> <<>>]

\* handleDidOpen and handleDidChange: the update of a file of the workspace
\* with "$A\n\tp", "$A\n\tq", "$A" or "$B\n\tq\n\tp" for a .view.tree
\* file, "" or "$A" for a .ts file
IndexUpdateSingleFile ==
    /\ call.calls < MaxUpdates
    /\ \E filePath \in Files :
       \E content \in IF IsViewTreePath(filePath)
                      THEN {<<"$","A","\n","\t","p">>, <<"$","A","\n","\t","q">>,
                            <<"$","A">>, <<"$","B","\n","\t","q","\n","\t","p">>}
                      ELSE TsTexts :
          /\ projectData' = UpdateSingleFile(projectData, filePath, content)
          /\ call' = [call EXCEPT !.fn = "UpdateSingleFile", !.calls = @ + 1,
                                  !.out = [filePath |-> filePath, content |-> content]]
    /\ UNCHANGED <<mutex, projectScanner, providers, documents, main, scan, crashed,
                   claimOrder, handled>>

\* initializeProviders: the scan of the workspace /w with some of the files
\* a.view.tree and e.ts
IndexScanProject ==
    /\ call.calls < MaxUpdates
    /\ \E tree \in SUBSET {Tree[2], Tree[3]} :
          /\ projectData' = ScanProject(projectData, <<"/","w">>, tree, {}, {}).pd
          /\ call' = [call EXCEPT !.fn = "ScanProject", !.calls = @ + 1,
                                  !.out = [tree |-> tree]]
    /\ UNCHANGED <<mutex, projectScanner, providers, documents, main, scan, crashed,
                   claimOrder, handled>>

IndexNext == IndexUpdateSingleFile \/ IndexScanProject

IndexSpec == IndexInit /\ [][IndexNext]_vars

\* C34: a call of UpdateSingleFile leaves for every component the property
\* names it had, and adds the names on the lines of the text that follow a
\* declaration of the component when the file is a .view.tree file: between
\* two scans GetPropertiesForComponent(c) is the union of the names recorded
\* for c by the fold-ins of all files, and no update removes a name
C34_PropertiesAccumulate ==
    [][call'.fn = "UpdateSingleFile"
       => LET Elements(list) == {list[i] : i \in DOMAIN list}
              filePath == call'.out.filePath
              lines == SplitLines(call'.out.content)
              \* the lines from a declaration of c to the next declaration
              Under(c) ==
                  {k \in 1..Len(lines) :
                      \E j \in 1..k :
                         /\ IsComponentLine(lines[j])
                         /\ FirstField(TrimSpace(lines[j])) = c
                         /\ \A i \in (j + 1)..k : ~IsComponentLine(lines[i])}
              Recorded(c) ==
                  IF IsViewTreePath(filePath)
                  THEN UNION {LineProperties(lines[k]) : k \in Under(c)}
                  ELSE {}
          IN \A c \in Comps :
                Elements(GetPropertiesForComponent(c)')
                   = Elements(GetPropertiesForComponent(c)) \cup Recorded(c)]_vars

\* /a.view.tree gave p to $A, /b.view.tree gave q, and the update of
\* /a.view.tree with "$A" alone leaves both
C34_UpdatedAfterTwoFiles ==
    /\ call.fn = "UpdateSingleFile"
    /\ call.out = [filePath |-> ViewTreeFiles[1], content |-> <<"$", "A">>]
    /\ GetPropertiesForComponent(<<"$", "A">>) = << <<"p">>, <<"q">> >>
    /\ projectData.FileComponents[ViewTreeFiles[2]] = {<<"$", "A">>}

----------------------------------------------------------------------------
(* The diagnostics of duplicate components: one document, checked once by  *)
(* the diagnostic provider or by the parser                                 *)

\* a document of the texts of Contents, not yet checked
DiagnosticsInit ==
    /\ projectData = NewProjectData
    /\ mutex = Unlocked
    /\ projectScanner = FALSE
    /\ providers = {}
    /\ documents = {}
    /\ main = MainIdle
    /\ scan = ScanOff
    /\ crashed = FALSE
    /\ claimOrder = NoClaims
    /\ handled = 0
    /\ \E content \in Contents :
          call = [args |-> "document", fn |-> "none", content |-> content,
                  out |-> <<>>]

\* the check fn of the document, giving out
Checked(fn, out) ==
    /\ call.args = "document"
    /\ call.fn = "none"
    /\ call' = [call EXCEPT !.fn = fn, !.out = out]
    /\ UNCHANGED <<projectData, mutex, projectScanner, providers, documents, main,
                   scan, crashed, claimOrder, handled>>

\* DiagnosticProvider.ProvideDiagnostics called on the document, with no
\* component or with the components of Comps in the index
DiagnosticsProvide ==
    \E documentURI \in {UriOf(ViewTreeFiles[1]), UriOf(TsFiles[1])},
       known \in {{}, {<<"$","A">>}, Comps} :
       Checked("ProvideDiagnostics",
               [documentURI |-> documentURI, index |-> known,
                diagnostics |-> ProvideDiagnostics(documentURI, call.content, known)])

\* the syntax check of the parser, the names $A and $B of the map in either
\* order
DiagnosticsValidateSyntax ==
    \E order \in {<< <<"$","A">>, <<"$","B">> >>, << <<"$","B">>, <<"$","A">> >>} :
       Checked("ValidateSyntax",
               [order |-> order, errors |-> ValidateSyntax(call.content, order)])

DiagnosticsNext ==
    \/ DiagnosticsProvide
    \/ DiagnosticsValidateSyntax

DiagnosticsSpec == DiagnosticsInit /\ [][DiagnosticsNext]_vars

\* C35: in the diagnostics of a .view.tree document, from
\* ViewTreeParser.ValidateSyntax and from ProvideDiagnostics alike, a root
\* component name on two or more lines has no duplicate diagnostic at its
\* first line and exactly one at each later line
C35_OneDuplicatePerLaterOccurrence ==
    LET lines == SplitLines(call.content)
        IsRoot(k) == lines[k] # <<>> /\ lines[k][1] = "$"
        Name(k) == FirstField(TrimSpace(lines[k]))
        Occurrences(name) == {k \in 1..Len(lines) : IsRoot(k) /\ Name(k) = name}
        produced == IF call.fn = "ValidateSyntax" THEN call.out.errors
                    ELSE call.out.diagnostics
        Duplicates(k) ==
            {d \in DOMAIN produced :
                /\ produced[d].Message \in {"Duplicate component name",
                                            "Duplicate component definition"}
                /\ produced[d].Range = GetWordRange(k - 1, lines[k], Name(k))}
    IN (\/ call.fn = "ValidateSyntax"
        \/ call.fn = "ProvideDiagnostics"
           /\ call.out.documentURI = UriOf(ViewTreeFiles[1]))
       => \A k \in 1..Len(lines) :
             (IsRoot(k) /\ Cardinality(Occurrences(Name(k))) >= 2)
             => Cardinality(Duplicates(k))
                   = (IF \E j \in Occurrences(Name(k)) : j < k THEN 1 ELSE 0)

----------------------------------------------------------------------------
(* The scopes of Parse *)

\* C36: in Parse, the scope that a compound-reference line opens at indent
\* level L is closed by the next line, neither blank nor a comment, of an
\* indent less than L: a property line below a root component with no open
\* scope left at its level is among the Properties of that root component
C36_ClosedScopeTakesNoLine ==
    LET lines == SplitLines(call.content)
        Counted(k) == /\ TrimSpace(lines[k]) # <<>>
                      /\ ~HasPrefix(TrimSpace(lines[k]), <<"/", "/">>)
        Indent(k) == GetIndentLevel(lines[k])
        IsRootLine(k) == /\ Counted(k) /\ Indent(k) = 0
                         /\ HasPrefix(TrimSpace(lines[k]), <<"$">>)
        Opens(j) == /\ Counted(j) /\ Indent(j) > 0
                    /\ ExtractComponentReference(lines[j]) # <<>>
        OpenAt(j, k) == /\ Opens(j)
                        /\ \A i \in (j + 1)..k : Counted(i) => Indent(i) >= Indent(j)
        IsPropertyLine(k) ==
            LET ws == RunLen(lines[k], 1, SpaceChars)
            IN /\ Counted(k) /\ Indent(k) > 0
               /\ ws > 0 /\ ws < Len(lines[k])
               /\ (IsIdentStart(lines[k][ws + 1]) \/ lines[k][ws + 1] = "$")
    IN call.fn = "Parse"
       => \A k \in 1..Len(lines), r \in 1..Len(lines) :
             (/\ r < k /\ IsRootLine(r)
              /\ \A i \in (r + 1)..k : ~IsRootLine(i)
              /\ IsPropertyLine(k)
              /\ \A j \in (r + 1)..k : ~OpenAt(j, k))
             => \E c \in DOMAIN call.out.Components :
                   /\ call.out.Components[c].StartLine = r - 1
                   /\ \E p \in DOMAIN call.out.Components[c].Properties :
                         call.out.Components[c].Properties[p].Line = k - 1

----------------------------------------------------------------------------
(* The hover on a component name *)

\* C40: for a position inside a name that starts with "$", with the word
\* range that GetWordRangeAtPosition gives, getNodeType of the hover provider
\* returns root_class or class, so that the hover is that of a component
C40_HoverOnComponentIsClass ==
    LET line == SplitLines(call.content)[call.position.line + 1]
    IN (call.fn = "getNodeType"
        /\ line[call.out.wordRange.start.character + 1] = "$")
       => call.out.hover \in {"root_class", "class"}

----------------------------------------------------------------------------
(* The hover during the scan *)

\* C37: the three answers of a hover that getComponentHover has completed,
\* that the component is known, its file and its properties, are those of
\* the index as it was at one instant between the request and the response
C37_HoverFromOneIndexState ==
    (main.req = "hover" /\ main.pc = "respond" /\ Len(main.ans) = 3)
    => [has |-> main.ans[1], file |-> main.ans[2], properties |-> main.ans[3]]
          \in main.snaps

----------------------------------------------------------------------------
(* The lock of the index, with the replacement at any point of a method *)

\* C38: outside its sections on the index a thread holds the lock of the
\* index neither as writer nor as reader, so that it never locks again what
\* it holds, and an operation that has returned has released what it locked:
\* its Unlock was that of the mutex it had locked
C38_LockReleasedAtReturn ==
    /\ main.pc \in {"idle", "u_lock", "validate", "publish", "q_lock", "respond"}
       => /\ mutex.writer # "main"
          /\ "main" \notin mutex.readers
          /\ ~main.unlockNew
    /\ scan.pc \notin {"f_clear", "f_item", "f_unlock", "tail1_read", "tail2_read"}
       => /\ mutex.writer # "scan"
          /\ "scan" \notin mutex.readers

====
